---- MODULE Spec2Model ----
(***************************************************************************)
(* Formation recognition service: the target state cache                   *)
(* (cache/target_cache.py), the delta sync service (sync/delta_sync.py)    *)
(* and the rule manager (rule_manager.py).                                 *)
(*                                                                         *)
(* The cache backend is modelled as a key-value store that returns the     *)
(* values that were written to it.  A key is the list of the parts that    *)
(* RedisClient._make_key joins with ":" behind the prefix "formation:".    *)
(* An optional value (Python's None) is a set with at most one element.    *)
(***************************************************************************)
EXTENDS Integers, Sequences, FiniteSets, TLC

\* ---------------------------------------------------------------- bounds
MaxClock == 2
MaxOps == 3
MaxSyncOps == 2
MaxRules == 2
MaxRuleOps == 2
MaxEvals == 1
MaxEngineOps == 2
MaxStoreOps == 4
MaxWsOps == 7
MaxStreamOps == 3
MaxStreamClock == 10

\* ------------------------------------------------------ program constants
DeltaMaxLen == 10000
DeltaTail == 5
TimeStep == 10
PersistenceThreshold == 6
MinFormationDuration == 30
MinTrackPoints == 3
SEGMENT_GAP_THRESHOLD == 120
MaxTrackAdds == 4
RETENTION_DAYS == 7
DayLen == 2
StartClock == 41

Targets == {"t1", "t2"}
CacheTargets == {"t1"}
Producers == {"p1", "p2"}
SessionIds == {"s1"}
WsClients == {"c1", "c2"}
CleanupCallers == {"daily", "manual"}
ClientIds == {"c1"}
TrackOrder == <<"t1", "t2", "t3">>
TrackIds == {TrackOrder[k] : k \in 1..Len(TrackOrder)}
TargetOrder == [t \in TrackIds |-> CHOOSE k \in 1..Len(TrackOrder) : TrackOrder[k] = t]
CacheIds == Targets \cup TrackIds
InputNations == {{"RED"}, {"BLUE"}}
InputTimes == {<<0, 10, 20, 30>>, <<0, 30>>}

None == {}
Some(x) == {x}
The(o) == CHOOSE x \in o : TRUE

VARIABLES
    now,        \* wall clock, in milliseconds
    hashes,     \* formation:target:{id}          -> optional field map
    versions,   \* formation:target:{id}:version  -> optional integer
    streams,    \* formation:delta:{id}           -> sequence of events
    pc,         \* position of each producer inside cache_target_state
    loc,        \* local variables of each producer's call
    ret,        \* optional return value of each producer's last call
    ops,        \* number of put and delete calls started
    assigned,   \* history: versions of the puts whose state write took effect
    logWrites,  \* history: for each log entry, the index of the write it is from
    lastWrite,  \* history: the last state write to a target still in effect
    sessions,   \* formation:sync:session:{sid}   -> optional session record
    lastPull,   \* history: what the last pull_delta was given and answered
    clientV,    \* the version map a client holds since its pull_full_state
    clientSync, \* history: outcome of the client's last pull_delta
    putsSince,  \* history: targets written since the client's last sync
    rules,      \* RuleManager.rules, each rule with the group it was added to
    evaluation_history, \* RuleManager.evaluation_history
    ruleOps,    \* number of calls made that change the registered rules
    lastEval,   \* history: the rules and results of the last evaluate_pair
    tracks,     \* FormationRecognitionEngine.tracks
    lastRun,    \* history: pair history and formations of the last recognize
    engineOps,  \* number of engine calls made
    records,    \* formation:formation:{id}       -> fields and expiry
    timeline,   \* formation:formations:timeline  -> sorted set of ids
    daily,      \* formation:formations:daily:{d} -> sorted set of ids and expiry
    wall,       \* wall clock of the store, in half days
    storeOps,   \* number of store calls and clock steps made
    lastStore,  \* history: the formation stored last and its id
    lastDelete, \* history: the id deleted last and the date it was indexed under
    lastCleanup, \* history: outcome of the last cleanup_expired_data
    lastInterp, \* history: the last heading interpolation and its result
    active_connections,   \* ConnectionManager.active_connections, its keys
    target_subscriptions, \* ConnectionManager.target_subscriptions
    client_subscriptions, \* ConnectionManager.client_subscriptions
    inbox,      \* history: the messages sent to each client, in order
    tasks,      \* the coroutines of the event loop that are not done
    wsOps,      \* number of calls made by clients and producers
    pending_targets, \* DataStreamService.pending_targets
    putCount,   \* history: number of puts made by pushes and batch updates
    is_running, \* DataStreamService.is_running
    loopState,  \* where _auto_recognize_loop is: none, sleeping or running
    dataTime,   \* the time of the reports pushed last, in seconds
    running,    \* history: recognition runs in progress during the last step
    sendFailed, \* history: the clients a send of the last handler failed for
    lastAck, \* history: what the last call of push_data returned
    streamClock, \* wall streamClock of the stream service, in seconds
    last_recognize_time, \* DataStreamService.stats['last_recognize_time']
    runStart, \* history: the recognition run the last step started
    lastRunEnd, \* history: the recognition run the last step ended
    changed_targets, \* SmartFormationEngine.changed_targets
    last_recognition_time, \* SmartFormationEngine.last_recognition_time
    lastIncr, \* history: the last call of recognize_incremental
    current_scene, \* FormationRecognitionEngine.current_scene
    lastPreset, \* history: the last preset applied and what was there before
    cleaning, \* for each caller of cleanup_expired_data inside the call, the ids it is to remove
    segTrack, \* one TargetTrack that states are added to
    added, \* every state given to add_state of segTrack, in order
    sealed, \* whether finalize was the last call on segTrack
    lastBuild, \* the last call of _build_formations: its valid pairs and what it returned
    lastDistance, \* the last call of DistanceRule.evaluate: its rule, its distance and its outcome
    bcast, \* the broadcast suspended in a send, if there is one
    lastBcast, \* the broadcast that ended last: who stayed, who got it, whether it raised
    lastKeys \* the last run of the service: the store keys before it and the keys it wrote

cacheVars == <<now, hashes, versions, streams, pc, loc, ret, ops,
               assigned, logWrites, lastWrite>>

syncVars == <<sessions, lastPull, clientV, clientSync, putsSince>>

ruleVars == <<rules, evaluation_history, ruleOps, lastEval>>

engineVars == <<tracks, lastRun, engineOps>>

storeVars == <<records, timeline, daily, wall, storeOps, lastStore,
               lastDelete, lastCleanup>>

interpVars == <<lastInterp>>

wsVars == <<active_connections, target_subscriptions, client_subscriptions,
            inbox, tasks, wsOps>>

streamVars == <<pending_targets, putCount, is_running, loopState, dataTime,
                running>>

sendVars == <<sendFailed>>

ackVars == <<lastAck>>

runVars == <<streamClock, last_recognize_time, runStart, lastRunEnd>>

incrVars == <<changed_targets, last_recognition_time, lastIncr>>

presetVars == <<current_scene, lastPreset>>

cleanVars == <<cleaning>>

trackVars == <<segTrack, added, sealed>>

buildVars == <<lastBuild>>

distVars == <<lastDistance>>

bcastVars == <<bcast, lastBcast>>

keysVars == <<lastKeys>>

extVars == <<engineVars, storeVars, interpVars, wsVars, streamVars,
    sendVars,
    ackVars,
    runVars,
    incrVars,
    presetVars,
    cleanVars,
    trackVars,
    buildVars,
    distVars,
    bcastVars,
    keysVars>>

baseVars == <<cacheVars, syncVars, ruleVars>>

\* What the actions of one component leave alone.
engineFrame == <<syncVars, ruleVars, storeVars, interpVars, wsVars, streamVars,
    sendVars,
    ackVars,
    runVars,
    incrVars,
    presetVars,
    cleanVars,
    trackVars,
    buildVars,
    distVars,
    bcastVars,
    keysVars>>
storeFrame == <<baseVars, engineVars, interpVars, wsVars, streamVars,
    sendVars,
    ackVars,
    runVars,
    incrVars,
    presetVars,
    cleanVars,
    trackVars,
    buildVars,
    distVars,
    bcastVars,
    keysVars>>
interpFrame == <<baseVars, engineVars, storeVars, wsVars, streamVars,
    sendVars,
    ackVars,
    runVars,
    incrVars,
    presetVars,
    cleanVars,
    trackVars,
    buildVars,
    distVars,
    bcastVars,
    keysVars>>
wsFrame == <<baseVars, engineVars, storeVars, interpVars, streamVars,
    sendVars,
    ackVars,
    runVars,
    incrVars,
    presetVars,
    cleanVars,
    trackVars,
    buildVars,
    distVars,
    bcastVars,
    keysVars>>
pushFrame == <<syncVars, ruleVars, engineVars, storeVars, interpVars,
               is_running, loopState, dataTime, running,
    sendVars,
    ackVars,
    runVars,
    incrVars,
    presetVars,
    cleanVars,
    trackVars,
    buildVars,
    distVars,
    bcastVars,
    keysVars>>
initFrame == <<baseVars, engineVars, storeVars, interpVars, wsVars,
    sendVars,
    ackVars,
    runVars,
    incrVars,
    presetVars,
    cleanVars,
    trackVars,
    buildVars,
    distVars,
    bcastVars,
    keysVars>>
stopFrame == <<baseVars, engineVars, storeVars, interpVars,
    sendVars,
    ackVars,
    runVars,
    incrVars,
    presetVars,
    cleanVars,
    trackVars,
    buildVars,
    distVars,
    bcastVars,
    keysVars>>
waitFrame == <<baseVars, engineVars, storeVars, interpVars, wsVars, streamVars,
    sendVars, ackVars, incrVars, presetVars, cleanVars,
    trackVars,
    buildVars,
    distVars,
    bcastVars,
    keysVars>>

vars == <<cacheVars, syncVars, ruleVars, extVars>>

\* ------------------------------------------------------------------ keys
KeyPrefix == "formation"
MakeKey(parts) == <<KeyPrefix>> \o parts
MakeTargetKey(t) == MakeKey(<<"target", t>>)
MakeVersionKey(t) == MakeKey(<<"target", t, "version">>)
MakeDeltaStreamKey(t) == MakeKey(<<"delta", t>>)
MakeSyncSessionKey(sid) == MakeKey(<<"sync", "session", sid>>)

\* ---------------------------------------------------------------- states
MkState(ts, x, h) ==
    [timestamp |-> ts,
     position |-> [longitude |-> x, latitude |-> 0, altitude |-> 0],
     heading |-> h, speed |-> 0, pitch |-> 0, roll |-> 0]

\* The states producers publish: two reports that differ in time and place.
InputStates == {MkState(0, 0, 90), MkState(1, 1, 90)}

ComputeStateHash(state) ==
    <<state.position.longitude, state.position.latitude,
      state.position.altitude, state.heading, state.speed, state.timestamp>>

StateToDict(state, clock) ==
    [timestamp |-> state.timestamp,
     position |-> [longitude |-> state.position.longitude,
                   latitude |-> state.position.latitude,
                   altitude |-> state.position.altitude],
     heading |-> state.heading,
     speed |-> state.speed,
     pitch |-> state.pitch,
     roll |-> state.roll,
     _cached_at |-> clock]

DictToStateCachedAt(data) ==
    [timestamp |-> data._cached_at,
     position |-> [longitude |-> data.position.longitude,
                   latitude |-> data.position.latitude,
                   altitude |-> data.position.altitude],
     heading |-> data.heading,
     speed |-> data.speed,
     pitch |-> data.pitch,
     roll |-> data.roll]

DictToState(data) ==
    [timestamp |-> data.timestamp,
     position |-> [longitude |-> data.position.longitude,
                   latitude |-> data.position.latitude,
                   altitude |-> data.position.altitude],
     heading |-> data.heading,
     speed |-> data.speed,
     pitch |-> data.pitch,
     roll |-> data.roll]

\* hset of every field of `data` on the hash at a key: fields already there
\* and not in `data` stay.
HSetAll(old, data) ==
    IF old = None THEN data
    ELSE [f \in (DOMAIN The(old)) \cup (DOMAIN data) |->
             IF f \in DOMAIN data THEN data[f] ELSE The(old)[f]]

\* -------------------------------------------------------- reads of the cache
HGetAll(t) == IF t \in DOMAIN hashes THEN hashes[t] ELSE None

RedisGetVersion(t) == IF t \in DOMAIN versions THEN versions[t] ELSE None

XRange(t) == IF t \in DOMAIN streams THEN streams[t] ELSE <<>>

get_target_state(t) ==
    LET data == HGetAll(t)
    IN  IF data = None THEN None ELSE Some(DictToState(The(data)))

get_target_version(t) ==
    LET version == RedisGetVersion(t)
    IN  IF version = None THEN 0 ELSE The(version)

\* ---------------------------------------------------------------- deltas
EmptyDict == <<>>

HeadingDiff(old_h, new_h) == ((new_h - old_h + 180) % 360) - 180

ComputeDelta(old_data, new_data) ==
    LET posPart ==
            IF old_data.position # new_data.position
            THEN "position" :>
                   [from |-> old_data.position,
                    to |-> new_data.position,
                    delta |-> [d_lon |-> new_data.position.longitude
                                           - old_data.position.longitude,
                               d_lat |-> new_data.position.latitude
                                           - old_data.position.latitude,
                               d_alt |-> new_data.position.altitude
                                           - old_data.position.altitude]]
            ELSE EmptyDict
        headPart ==
            IF old_data.heading # new_data.heading
            THEN "heading" :>
                   [from |-> old_data.heading,
                    to |-> new_data.heading,
                    delta |-> HeadingDiff(old_data.heading, new_data.heading)]
            ELSE EmptyDict
        speedPart ==
            IF old_data.speed # new_data.speed
            THEN "speed" :>
                   [from |-> old_data.speed,
                    to |-> new_data.speed,
                    delta |-> new_data.speed - old_data.speed]
            ELSE EmptyDict
        delta == posPart @@ headPart @@ speedPart
    IN  IF DOMAIN delta = {} THEN None
        ELSE Some([changes |-> delta,
                   _changed_at |-> new_data.timestamp,
                   _fields |-> (DOMAIN delta) \cup {"_changed_at"}])

MakeEvent(t, version, delta, event_type, reason, clock) ==
    [target_id |-> t,
     version |-> version,
     event_type |-> event_type,
     timestamp |-> clock,
     delta |-> delta,
     reason |-> reason]

\* xadd with maxlen: append, then drop the oldest entries beyond maxlen.
XAdd(log, event, maxlen) ==
    LET l == Append(log, event)
    IN  IF Len(l) > maxlen THEN SubSeq(l, Len(l) - maxlen + 1, Len(l)) ELSE l

get_delta_since(t, since_version) ==
    SelectSeq(XRange(t), LAMBDA e : e.version > since_version)

\* ------------------------------------------------- cache_target_state (put)
IdleLoc == [target_id |-> "", state |-> None, emit_delta |-> FALSE,
            new_version |-> 0, old_state_data |-> None, old_version |-> 0,
            state_data |-> None, widx |-> 0]

\* lines 83-88: the keys, the hash of the new state and the version, which
\* is the wall clock in milliseconds.
PutStart(p, t, s, emit) ==
    /\ pc[p] = "idle"
    /\ ops < MaxOps
    /\ ops' = ops + 1
    /\ pc' = [pc EXCEPT ![p] = "versioned"]
    /\ loc' = [loc EXCEPT ![p] = [IdleLoc EXCEPT !.target_id = t,
                                                 !.state = Some(s),
                                                 !.emit_delta = emit,
                                                 !.new_version = now]]
    /\ ret' = [ret EXCEPT ![p] = None]
    /\ UNCHANGED <<now, hashes, versions, streams, assigned,
                   logWrites, lastWrite>>

\* lines 91-94: the old state and the old version are read.
PutRead(p) ==
    /\ pc[p] = "versioned"
    /\ pc' = [pc EXCEPT ![p] = "read"]
    /\ loc' = [loc EXCEPT
                 ![p].old_state_data = HGetAll(loc[p].target_id),
                 ![p].old_version = get_target_version(loc[p].target_id)]
    /\ UNCHANGED <<now, hashes, versions, streams, ret, ops, assigned,
                   logWrites, lastWrite>>

NewStateData(p) ==
    StateToDict(The(loc[p].state), now) @@
        [_hash |-> ComputeStateHash(The(loc[p].state)),
         _version |-> loc[p].new_version]

\* lines 102-112: hset of every field, expire, set of the version key.
PipelineWrite(p) ==
    LET t == loc[p].target_id
    IN  /\ hashes' = [hashes EXCEPT ![t] = Some(HSetAll(hashes[t], NewStateData(p)))]
        /\ versions' = [versions EXCEPT ![t] = Some(loc[p].new_version)]

\* lines 97-112: the fields, the expiry and the version are written by one
\* pipeline.
PutExec(p) ==
    LET t == loc[p].target_id
    IN  /\ pc[p] = "read"
        /\ PipelineWrite(p)
        /\ pc' = [pc EXCEPT ![p] = "written"]
        /\ assigned' = [assigned EXCEPT ![t] = Append(@, loc[p].new_version)]
        /\ loc' = [loc EXCEPT ![p].state_data = Some(NewStateData(p)),
                               ![p].widx = Len(assigned[t]) + 1]
        /\ lastWrite' = [lastWrite EXCEPT ![t] =
                            Some([proc |-> p, state |-> The(loc[p].state),
                                  version |-> loc[p].new_version,
                                  returned |-> FALSE])]
        /\ UNCHANGED <<now, streams, ret, ops, logWrites>>

\* lines 124-126: the pipeline raised; nothing was written.
PutFail(p) ==
    /\ pc[p] = "read"
    /\ pc' = [pc EXCEPT ![p] = "idle"]
    /\ loc' = [loc EXCEPT ![p] = IdleLoc]
    /\ ret' = [ret EXCEPT ![p] =
                 Some([success |-> FALSE, is_update |-> FALSE, delta |-> None])]
    /\ UNCHANGED <<now, hashes, versions, streams, ops, assigned,
                   logWrites, lastWrite>>

\* line 94
IsUpdate(p) == loc[p].old_state_data # None

\* lines 115-117
PutDelta(p) ==
    IF IsUpdate(p) /\ loc[p].emit_delta
    THEN ComputeDelta(The(loc[p].old_state_data), The(loc[p].state_data))
    ELSE None

\* _emit_delta_event: the event is appended to the stream of the target; a
\* failure of the append (xaddOk = FALSE) is logged and swallowed.
EmitDeltaEvent(t, version, delta, event_type, reason, xaddOk) ==
    IF xaddOk
    THEN /\ streams' = [streams EXCEPT ![t] =
                XAdd(@, MakeEvent(t, version, delta, event_type, reason, now),
                     DeltaMaxLen)]
    ELSE /\ UNCHANGED streams

\* A put whose failed append were not swallowed would return through the
\* except clause of lines 124-126.
PutReturnRaising(p, delta, xaddOk) ==
    IF delta # None /\ ~xaddOk
    THEN [success |-> FALSE, is_update |-> FALSE, delta |-> None]
    ELSE [success |-> TRUE, is_update |-> IsUpdate(p), delta |-> delta]

\* line 122: what the put returns; _emit_delta_event has caught the failure
\* of its append, lines 250-251, so the return does not depend on it.
PutReturn(p, delta, xaddOk) ==
    [success |-> TRUE, is_update |-> IsUpdate(p), delta |-> delta]

\* lines 114-122: the delta is computed and emitted, the call returns.
PutEmit(p, xaddOk) ==
    LET t == loc[p].target_id
        delta == PutDelta(p)
    IN  /\ pc[p] = "written"
        /\ IF delta # None
           THEN /\ EmitDeltaEvent(t, loc[p].new_version, The(delta), "UPDATE",
                                  None, xaddOk)
                /\ logWrites' = [logWrites EXCEPT ![t] =
                        IF xaddOk THEN Append(@, loc[p].widx) ELSE @]
           ELSE /\ xaddOk
                /\ UNCHANGED <<streams, logWrites>>
        /\ pc' = [pc EXCEPT ![p] = "idle"]
        /\ loc' = [loc EXCEPT ![p] = IdleLoc]
        /\ ret' = [ret EXCEPT ![p] = Some(PutReturn(p, delta, xaddOk))]
        /\ lastWrite' = [lastWrite EXCEPT ![t] =
                IF @ # None /\ The(@).proc = p /\ ~The(@).returned
                THEN Some([The(@) EXCEPT !.returned = TRUE]) ELSE @]
        /\ UNCHANGED <<now, hashes, versions, ops, assigned>>

\* ------------------------------------------------------------ delete_target
DeleteReasons == {"MANUAL_CLEAR"}

delete_target(t, reason, xaddOk) ==
    /\ EmitDeltaEvent(t, get_target_version(t), EmptyDict, "DELETE",
                      Some(reason), xaddOk)
    /\ logWrites' = [logWrites EXCEPT ![t] = IF xaddOk THEN Append(@, 0) ELSE @]
    /\ hashes' = [hashes EXCEPT ![t] = None]
    /\ versions' = [versions EXCEPT ![t] = None]
    /\ lastWrite' = [lastWrite EXCEPT ![t] = None]
    /\ UNCHANGED <<now, pc, loc, ret, assigned>>

Delete(t, reason, xaddOk) ==
    /\ ops < MaxOps
    /\ ops' = ops + 1
    /\ delete_target(t, reason, xaddOk)

\* ------------------------------------------------------------------- clock
Tick ==
    /\ now < MaxClock
    /\ now' = now + 1
    /\ UNCHANGED <<hashes, versions, streams, pc, loc, ret, ops,
                   assigned, logWrites, lastWrite>>

InitCache ==
    /\ now = 1
    /\ hashes = [t \in CacheIds |-> None]
    /\ versions = [t \in CacheIds |-> None]
    /\ streams = [t \in CacheIds |-> <<>>]
    /\ pc = [p \in Producers |-> "idle"]
    /\ loc = [p \in Producers |-> IdleLoc]
    /\ ret = [p \in Producers |-> None]
    /\ ops = 0
    /\ assigned = [t \in Targets |-> <<>>]
    /\ logWrites = [t \in Targets |-> <<>>]
    /\ lastWrite = [t \in Targets |-> None]

\* The cache put as one step: cache_target_state with no other call
\* interleaved, its pipeline succeeding.
CachePut(t, s, emit, xaddOk) ==
    LET old_state_data == HGetAll(t)
        new_version == now
        state_data == StateToDict(s, now) @@
                        [_hash |-> ComputeStateHash(s), _version |-> new_version]
        is_update == old_state_data # None
        delta == IF is_update /\ emit
                 THEN ComputeDelta(The(old_state_data), state_data)
                 ELSE None
    IN  /\ hashes' = [hashes EXCEPT ![t] = Some(HSetAll(hashes[t], state_data))]
        /\ versions' = [versions EXCEPT ![t] = Some(new_version)]
        /\ IF delta # None
           THEN EmitDeltaEvent(t, new_version, The(delta), "UPDATE", None, xaddOk)
           ELSE xaddOk /\ UNCHANGED streams
        /\ UNCHANGED <<now, pc, loc, ret, assigned, logWrites, lastWrite>>

\* ------------------------------------------------- get_all_active_targets
RedisKeys ==
    {MakeTargetKey(t) : t \in {u \in Targets : hashes[u] # None}}
    \cup {MakeVersionKey(t) : t \in {u \in Targets : versions[u] # None}}
    \cup {MakeDeltaStreamKey(t) : t \in {u \in Targets : streams[u] # <<>>}}
    \cup {MakeSyncSessionKey(x) : x \in {y \in SessionIds : sessions[y] # None}}

\* scan with match = _make_key("target", "*")
ScanMatch(key) == Len(key) >= 3 /\ key[1] = KeyPrefix /\ key[2] = "target"

get_all_active_targets ==
    LET keys == {k \in RedisKeys : ScanMatch(k)}
    IN  {parts[Len(parts) - 1] :
            parts \in {k \in keys : Len(k) >= 3 /\ k[Len(k)] # "version"}}

\* ------------------------------------------------------------- delta sync
get_sync_session(sid) == IF sid \in DOMAIN sessions THEN sessions[sid] ELSE None

\* The creation and last-sync timestamps of a session, which no handler
\* reads, are left out of the record.
create_sync_session(sid, client_id, target_ids) ==
    /\ sessions[sid] = None
    /\ sessions' = [sessions EXCEPT ![sid] =
            Some([session_id |-> sid,
                  client_id |-> client_id,
                  target_ids |-> IF target_ids = None THEN {} ELSE The(target_ids),
                  versions |-> EmptyDict,
                  is_active |-> TRUE])]
    /\ UNCHANGED <<cacheVars, lastPull, clientV, clientSync, putsSince>>

close_sync_session(sid) ==
    /\ sessions[sid] # None
    /\ sessions' = [sessions EXCEPT ![sid] = None]
    /\ UNCHANGED <<cacheVars, lastPull, clientV, clientSync, putsSince>>

\* dict.update
DictUpdate(d, e) ==
    [k \in (DOMAIN d) \cup (DOMAIN e) |-> IF k \in DOMAIN e THEN e[k] ELSE d[k]]

update_sync_session(session_id, current_versions) ==
    LET session == get_sync_session(session_id)
    IN  IF session = None THEN sessions
        ELSE [sessions EXCEPT ![session_id] =
                Some([The(session) EXCEPT
                        !.versions = DictUpdate(@, current_versions)])]

Truthy(optDict) == optDict # None /\ DOMAIN The(optDict) # {}

PullSession(session_id) ==
    IF session_id # None THEN get_sync_session(The(session_id)) ELSE None

\* lines 106-112
PullTargetIds(session, target_ids) ==
    IF target_ids # None THEN The(target_ids)
    ELSE IF session # None /\ The(session).target_ids # {}
         THEN The(session).target_ids
         ELSE get_all_active_targets

BaseVersionsSinceOnly(session, since_versions) ==
    IF Truthy(since_versions) THEN The(since_versions) ELSE EmptyDict

\* lines 114-119
BaseVersions(session, since_versions) ==
    IF Truthy(since_versions) THEN The(since_versions)
    ELSE IF session # None THEN The(session).versions
         ELSE EmptyDict

LastN(seq, n) ==
    IF Len(seq) > n THEN SubSeq(seq, Len(seq) - n + 1, Len(seq)) ELSE seq

StateView(state) ==
    [position |-> [longitude |-> state.position.longitude,
                   latitude |-> state.position.latitude,
                   altitude |-> state.position.altitude],
     heading |-> state.heading,
     speed |-> state.speed,
     timestamp |-> state.timestamp]

\* lines 121-177: the delta package
PullDelta(session_id, target_ids, since_versions) ==
    LET session == PullSession(session_id)
        tids == PullTargetIds(session, target_ids)
        base_versions == BaseVersions(session, since_versions)
        present == {t \in tids : get_target_state(t) # None}
        BaseOf(t) == IF t \in DOMAIN base_versions THEN base_versions[t] ELSE 0
        updated == {t \in present : get_target_version(t) > BaseOf(t)}
    IN  [session_id |-> session_id,
         timestamp |-> now,
         full_sync |-> (DOMAIN base_versions = {}),
         targets |->
            [t \in updated |->
                [current_state |-> StateView(The(get_target_state(t))),
                 version |-> get_target_version(t),
                 base_version |-> BaseOf(t),
                 delta_events |-> LastN(get_delta_since(t, BaseOf(t)), DeltaTail)]],
         removed_targets |->
            {[target_id |-> t, last_version |-> base_versions[t]] :
                t \in (tids \ present) \cap (DOMAIN base_versions)},
         metadata |-> [total_targets |-> Cardinality(tids),
                       updated_targets |-> Cardinality(updated)],
         current_versions |-> [t \in present |-> get_target_version(t)]]

\* lines 189-219
PullFullState(target_ids) ==
    LET tids == IF target_ids = None THEN get_all_active_targets
                ELSE The(target_ids)
        present == {t \in tids : get_target_state(t) # None}
    IN  [timestamp |-> now,
         sync_type |-> "FULL",
         targets |-> [t \in present |-> StateView(The(get_target_state(t)))],
         versions |-> [t \in present |-> get_target_version(t)]]

\* pull_delta: the package, then the session's version map is refreshed
\* (lines 179-181).
pull_delta(session_id, target_ids, since_versions) ==
    LET resp == PullDelta(session_id, target_ids, since_versions)
    IN  /\ sessions' = IF session_id # None
                       THEN update_sync_session(The(session_id),
                                                resp.current_versions)
                       ELSE sessions
        /\ lastPull' = Some([since_given |-> Truthy(since_versions),
                             since_ids |-> IF since_versions = None THEN {}
                                           ELSE DOMAIN The(since_versions),
                             session_base |-> PullSession(session_id) # None
                                 /\ DOMAIN The(PullSession(session_id)).versions # {},
                             absent |-> {t \in Targets : get_target_state(t) = None},
                             full_sync |-> resp.full_sync,
                             updated |-> DOMAIN resp.targets,
                             removed |-> {r.target_id : r \in resp.removed_targets}])
        /\ UNCHANGED <<cacheVars, clientV, clientSync, putsSince>>

\* A client bootstraps with pull_full_state() and keeps the version map.
ClientPullFull ==
    /\ clientV' = Some(PullFullState(None).versions)
    /\ putsSince' = {}
    /\ clientSync' = None
    /\ UNCHANGED <<cacheVars, sessions, lastPull>>

\* The client pulls with the version map it holds, and applies the response.
ClientPull ==
    /\ clientV # None
    /\ LET resp == PullDelta(None, None, clientV)
       IN  /\ clientSync' = Some([expected |-> putsSince,
                                  targets |-> DOMAIN resp.targets])
           /\ clientV' = Some(DictUpdate(The(clientV),
                                [t \in DOMAIN resp.targets |-> resp.targets[t].version]))
    /\ putsSince' = {}
    /\ UNCHANGED <<cacheVars, sessions, lastPull>>

SyncPut(t, s) ==
    /\ ops < MaxSyncOps
    /\ ops' = ops + 1
    /\ CachePut(t, s, TRUE, TRUE)
    /\ putsSince' = putsSince \cup {t}
    /\ UNCHANGED <<sessions, lastPull, clientV, clientSync>>

SyncDelete(t, reason) ==
    /\ ops < MaxSyncOps
    /\ ops' = ops + 1
    /\ delete_target(t, reason, TRUE)
    /\ putsSince' = putsSince \ {t}
    /\ UNCHANGED <<sessions, lastPull, clientV, clientSync>>


\* ------------------------------------------------------------ rule manager
CRITICAL == 0
HIGH == 1
MEDIUM == 2
LOW == 3
OPTIONAL == 4
RulePriority == {CRITICAL, HIGH, MEDIUM, LOW, OPTIONAL}

\* The rules a caller registers: rules of three classes, the built-in ones in
\* the default group and the custom one in a group of its own, each at one
\* of two priorities and enabled, as the constructor leaves it.
RuleTypes == [distance |-> "DistanceRule", attribute |-> "AttributeRule",
              custom |-> "CustomRule"]
RuleNames == DOMAIN RuleTypes
GroupOf == [distance |-> "default", attribute |-> "default", custom |-> "strict"]
RuleGroups == {"default", "strict"}
InputPriorities == {CRITICAL, HIGH}
NewStats == [evaluations |-> 0, passed |-> 0, failed |-> 0]
BaseRule(name, priority) ==
    [name |-> name, rule_type |-> RuleTypes[name], priority |-> priority,
     enabled |-> TRUE, stats |-> NewStats]

update_stats(rule, passed) ==
    [rule EXCEPT !.stats.evaluations = @ + 1,
                 !.stats.passed = IF passed THEN @ + 1 ELSE @,
                 !.stats.failed = IF passed THEN @ ELSE @ + 1]

RuleResult(passed, confidence, priority) ==
    [passed |-> passed, confidence |-> confidence, priority |-> priority]

\* What evaluate of an enabled rule can return, over all contexts, with the
\* confidence counted in tenths (10 is 1.0): a rule of a built-in class
\* answers with its own priority, except that the attribute rule reports a
\* hostile pair as CRITICAL; a custom rule returns what its evaluator
\* returns, of any priority, or a failure of its own priority when it raises.
RuleEvaluate(rule) ==
    CASE rule.rule_type = "DistanceRule" ->
            {RuleResult(FALSE, 0, rule.priority), RuleResult(TRUE, 10, rule.priority)}
      [] rule.rule_type = "AttributeRule" ->
            {RuleResult(FALSE, 0, CRITICAL), RuleResult(FALSE, 0, rule.priority),
             RuleResult(TRUE, 10, rule.priority)}
      [] OTHER ->
            {RuleResult(FALSE, 0, rule.priority)} \cup
            {RuleResult(b, IF b THEN 10 ELSE 0, q) : b \in BOOLEAN, q \in InputPriorities}

RuleOp ==
    /\ ruleOps < MaxRuleOps
    /\ ruleOps' = ruleOps + 1

add_rule(rule) ==
    /\ Len(rules) < MaxRules
    /\ rules' = Append(rules, rule)
    /\ RuleOp
    /\ UNCHANGED <<evaluation_history, lastEval>>

remove_rule(name) ==
    /\ rules' = SelectSeq(rules, LAMBDA r : r.name # name)
    /\ RuleOp
    /\ UNCHANGED <<evaluation_history, lastEval>>

enable_group(group) ==
    /\ rules' = [i \in 1..Len(rules) |->
                    IF GroupOf[rules[i].name] = group
                    THEN [rules[i] EXCEPT !.enabled = TRUE] ELSE rules[i]]
    /\ RuleOp
    /\ UNCHANGED <<evaluation_history, lastEval>>

disable_group(group) ==
    /\ rules' = [i \in 1..Len(rules) |->
                    IF GroupOf[rules[i].name] = group
                    THEN [rules[i] EXCEPT !.enabled = FALSE] ELSE rules[i]]
    /\ RuleOp
    /\ UNCHANGED <<evaluation_history, lastEval>>

clear ==
    /\ rules' = <<>>
    /\ RuleOp
    /\ UNCHANGED <<evaluation_history, lastEval>>

\* sorted(self.rules, key=priority.value), as the positions of the rules in
\* self.rules: a stable sort.
IndexesAt(rs, p) ==
    SelectSeq([i \in 1..Len(rs) |-> i], LAMBDA i : rs[i].priority = p)
SortedRules(rs) ==
    IndexesAt(rs, CRITICAL) \o IndexesAt(rs, HIGH) \o IndexesAt(rs, MEDIUM)
        \o IndexesAt(rs, LOW) \o IndexesAt(rs, OPTIONAL)

ShortCircuitsOnRulePriority(rule, result) ==
    rule.priority = CRITICAL /\ ~result.passed

\* The test that ends the loop of evaluate_pair.
ShortCircuits(rule, result) ==
    result.priority = CRITICAL /\ ~result.passed

EvalStart ==
    [results |-> <<>>, critical_passed |-> TRUE, total_confidence |-> 0,
     total_weight |-> 0, evaluated |-> <<>>]

\* The loop of evaluate_pair from position k of the sorted rules on; outcome
\* gives, for each rule of self.rules, the result its evaluate returns.
RECURSIVE EvalLoop(_, _, _, _, _)
EvalLoop(rs, sorted_rules, k, outcome, acc) ==
    IF k > Len(sorted_rules) THEN acc
    ELSE LET i == sorted_rules[k]
             rule == rs[i]
             result == outcome[i]
             acc1 == [acc EXCEPT
                        !.results = Append(@,
                            [rule_name |-> rule.name, rule_type |-> rule.rule_type,
                             priority |-> rule.priority, passed |-> result.passed,
                             confidence |-> result.confidence]),
                        !.evaluated = Append(@, i)]
         IN  IF ~rule.enabled
             THEN EvalLoop(rs, sorted_rules, k + 1, outcome, acc)
             ELSE IF ShortCircuits(rule, result)
             THEN [acc1 EXCEPT !.critical_passed = FALSE]
             ELSE IF result.passed
             THEN EvalLoop(rs, sorted_rules, k + 1, outcome,
                     [acc1 EXCEPT
                        !.total_confidence = @ + result.confidence * rule.priority,
                        !.total_weight = @ + rule.priority])
             ELSE EvalLoop(rs, sorted_rules, k + 1, outcome, acc1)

Max(a, b) == IF a >= b THEN a ELSE b
CountPassed(results, flag) ==
    Cardinality({k \in 1..Len(results) : results[k].passed = flag})

\* The confidence of an evaluation, as the fraction num / den of tenths.
OverallConfidence(acc) ==
    IF ~acc.critical_passed THEN [num |-> 0, den |-> 1]
    ELSE IF acc.total_weight > 0
         THEN [num |-> acc.total_confidence, den |-> Max(acc.total_weight, 1)]
         ELSE [num |-> 0, den |-> 1]

Evaluation(acc) ==
    [passed |-> acc.critical_passed
                /\ \A k \in 1..Len(acc.results) : acc.results[k].passed,
     confidence |-> OverallConfidence(acc),
     results |-> acc.results,
     summary |-> [total |-> Len(acc.results),
                  passed |-> CountPassed(acc.results, TRUE),
                  failed |-> CountPassed(acc.results, FALSE),
                  critical_failed |-> ~acc.critical_passed]]

evaluate_pair(outcome) ==
    /\ Len(evaluation_history) < MaxEvals
    /\ \A i \in 1..Len(rules) : outcome[i] \in RuleEvaluate(rules[i])
    /\ LET sorted_rules == SortedRules(rules)
           acc == EvalLoop(rules, sorted_rules, 1, outcome, EvalStart)
           evaluation == Evaluation(acc)
           ran == {acc.evaluated[k] : k \in 1..Len(acc.evaluated)}
       IN  /\ rules' = [i \in 1..Len(rules) |->
                          IF i \in ran
                          THEN update_stats(rules[i], outcome[i].passed)
                          ELSE rules[i]]
           /\ evaluation_history' = Append(evaluation_history, evaluation)
           /\ UNCHANGED ruleOps
           /\ lastEval' = Some([rules |-> rules, sorted_rules |-> sorted_rules,
                                outcome |-> outcome, evaluated |-> acc.evaluated,
                                evaluation |-> evaluation])

InitRules ==
    /\ rules = <<>>
    /\ evaluation_history = <<>>
    /\ ruleOps = 0
    /\ lastEval = None

\* ------------------------------------------- tracker.py: TargetTrack
\* Times of reports are in seconds.  A track is the attributes it was made
\* with, its saved segments and the segment under construction.
TargetTrack(nation) ==
    [attributes |-> [nation |-> nation],
     segments |-> <<>>,
     current_segment |-> <<>>]

\* add_state, lines 44-57: a report more than SEGMENT_GAP_THRESHOLD after
\* the last one starts a new segment; the old one is kept only if it has more
\* than one state.
add_state(track, state) ==
    IF track.current_segment = <<>>
    THEN [track EXCEPT !.current_segment = <<state>>]
    ELSE LET last_state == track.current_segment[Len(track.current_segment)]
             time_gap == state.timestamp - last_state.timestamp
         IN  IF time_gap > SEGMENT_GAP_THRESHOLD
             THEN [track EXCEPT
                     !.segments = IF Len(track.current_segment) > 1
                                  THEN Append(@, track.current_segment) ELSE @,
                     !.current_segment = <<state>>]
             ELSE [track EXCEPT !.current_segment = Append(@, state)]

\* The target cache as one value, for the calls that write to it in a loop.
CacheNow == [hashes |-> hashes, versions |-> versions, streams |-> streams]

\* _sync_to_cache: cache_target_state(target_id, state, emit_delta=True),
\* its pipeline and its stream append succeeding.
SyncToCache(c, t, state) ==
    LET old_state_data == c.hashes[t]
        new_version == now
        state_data == StateToDict(state, now) @@
                        [_hash |-> ComputeStateHash(state), _version |-> new_version]
        delta == IF old_state_data # None
                 THEN ComputeDelta(The(old_state_data), state_data)
                 ELSE None
    IN  [hashes |-> [c.hashes EXCEPT ![t] = Some(HSetAll(old_state_data, state_data))],
         versions |-> [c.versions EXCEPT ![t] = Some(new_version)],
         streams |-> IF delta # None
                     THEN [c.streams EXCEPT ![t] =
                             XAdd(@, MakeEvent(t, new_version, The(delta),
                                               "UPDATE", None, now), DeltaMaxLen)]
                     ELSE c.streams]

\* finalize, lines 86-94: the segment under construction is saved if it has
\* more than one state, and dropped otherwise.
finalize(track) ==
    [track EXCEPT
        !.segments = IF Len(track.current_segment) > 1
                     THEN Append(@, track.current_segment) ELSE @,
        !.current_segment = <<>>]

\* finalize, lines 90-92: the last state of a saved segment is synced again.
FinalizeSync(c, t, track) ==
    IF Len(track.current_segment) > 1
    THEN SyncToCache(c, t, track.current_segment[Len(track.current_segment)])
    ELSE c

RECURSIVE Flatten(_)
Flatten(segs) == IF segs = <<>> THEN <<>> ELSE Head(segs) \o Flatten(Tail(segs))

\* interpolate, lines 151-157, and get_state_count
AllStates(track) == Flatten(track.segments) \o track.current_segment

get_states_in_range(track, start, end) ==
    SelectSeq(AllStates(track),
              LAMBDA s : start <= s.timestamp /\ s.timestamp <= end)

SeqRange(seq) == {seq[i] : i \in 1..Len(seq)}
MinOf(S) == CHOOSE x \in S : \A y \in S : x <= y
MaxOf(S) == CHOOSE x \in S : \A y \in S : x >= y

\* interpolate, lines 193-194: the signed difference of the headings and the
\* heading at `num/den` of the way, as a number of `den`-ths of a degree.
HeadingDiffOf(before_h, after_h) == ((after_h - before_h + 180) % 360) - 180

InterpolateHeading(before_h, after_h, num, den) ==
    (before_h * den + HeadingDiffOf(before_h, after_h) * num) % (360 * den)

\* interpolate, lines 183-197: a value at elapsed/total_dt of the way.
Lerp(b, a, elapsed, total_dt) ==
    IF total_dt > 0 THEN b + ((a - b) * elapsed) \div total_dt ELSE b

\* interpolate: the cached state when target_time is within 5 s of the wall
\* clock (near_now) and the cache has one; else the state of the track at
\* target_time, None for a track without states.
interpolate(t, track, target_time, near_now) ==
    LET cached_state == get_target_state(t)
        all_states == AllStates(track)
        times == {s.timestamp : s \in SeqRange(all_states)}
        beforeT == {u \in times : u <= target_time}
        afterT == {u \in times : u >= target_time}
        StateAt(u) == CHOOSE s \in SeqRange(all_states) : s.timestamp = u
    IN  IF near_now /\ cached_state # None THEN cached_state
        ELSE IF all_states = <<>> THEN None
        ELSE IF beforeT = {} THEN Some(StateAt(MinOf(afterT)))
        ELSE IF afterT = {} THEN Some(StateAt(MaxOf(beforeT)))
        ELSE IF MaxOf(beforeT) = MinOf(afterT) THEN Some(StateAt(MaxOf(beforeT)))
        ELSE LET before == StateAt(MaxOf(beforeT))
                 after == StateAt(MinOf(afterT))
                 total_dt == after.timestamp - before.timestamp
                 elapsed == target_time - before.timestamp
             IN  Some([timestamp |-> target_time,
                       position |->
                         [longitude |-> Lerp(before.position.longitude,
                                             after.position.longitude, elapsed, total_dt),
                          latitude |-> Lerp(before.position.latitude,
                                            after.position.latitude, elapsed, total_dt),
                          altitude |-> Lerp(before.position.altitude,
                                            after.position.altitude, elapsed, total_dt)],
                       heading |-> InterpolateHeading(before.heading, after.heading,
                                                      elapsed, total_dt) \div total_dt,
                       speed |-> Lerp(before.speed, after.speed, elapsed, total_dt),
                       pitch |-> 0, roll |-> 0])

\* ------------------------------- formation_engine.py: the recognition engine
\* A record of the input data: the target, the nation it reports and the
\* state parsed from it.
Record(t, nation, state) == [id |-> t, nation |-> nation, state |-> state]

\* _process_single_record: the track is made from the first record of a
\* target, the state is added to it and synced to the cache.
RECURSIVE ProcessRecords(_, _, _)
ProcessRecords(trk, c, data_list) ==
    IF data_list = <<>> THEN [tracks |-> trk, cache |-> c]
    ELSE LET record == Head(data_list)
             tid == record.id
             trk1 == IF tid \in DOMAIN trk THEN trk
                     ELSE trk @@ (tid :> TargetTrack(record.nation))
         IN  ProcessRecords([trk1 EXCEPT ![tid] = add_state(@, record.state)],
                            SyncToCache(c, tid, record.state),
                            Tail(data_list))

\* process_data, lines 97-98: every track is finalized.
RECURSIVE FinalizeAll(_, _, _)
FinalizeAll(trk, c, ids) ==
    IF ids = {} THEN [tracks |-> trk, cache |-> c]
    ELSE LET tid == CHOOSE x \in ids : TRUE
         IN  FinalizeAll([trk EXCEPT ![tid] = finalize(@)],
                         FinalizeSync(c, tid, trk[tid]),
                         ids \ {tid})

EmptyTracks == [t \in {} |-> TargetTrack(None)]

\* AttributeRule.evaluate, lines 352-362: the hostile check of the presets.
hostile_pairs == {<<"RED", "BLUE">>, <<"BLUE", "RED">>, <<"ENEMY", "FRIEND">>}

HostileCheckFails(attr1, attr2) ==
    /\ attr1.nation # None
    /\ attr2.nation # None
    /\ <<The(attr1.nation), The(attr2.nation)>> \in hostile_pairs

\* recognize, lines 168-177: the analysis window is taken from the saved
\* segments of the tracks.
SegmentTimes(trk) ==
    {s.timestamp : s \in UNION {SeqRange(Flatten(trk[t].segments)) : t \in DOMAIN trk}}

RECURSIVE CountSegmentStates(_, _)
CountSegmentStates(trk, ids) ==
    IF ids = {} THEN 0
    ELSE LET tid == CHOOSE x \in ids : TRUE
         IN  Len(Flatten(trk[tid].segments)) + CountSegmentStates(trk, ids \ {tid})

\* pd.date_range(start, end, freq=time_step)
TimePoints(start_time, end_time) ==
    [k \in 1..((end_time - start_time) \div TimeStep + 1) |->
        start_time + (k - 1) * TimeStep]

PairsOf(S) == {p \in SUBSET S : Cardinality(p) = 2}

\* The order of the targets in the tracks dict: the order of the data.
First(p) == CHOOSE x \in p : \A y \in p : TargetOrder[x] <= TargetOrder[y]
Second(p) == CHOOSE x \in p : x # First(p)

\* recognize, lines 200-236: the time points at which both targets of a pair
\* have a state, and those at which the pair passed the rules.  `outcome`
\* is the verdict of the rules other than the hostile check; a failed
\* hostile check is a failed critical rule and fails the evaluation.
PairTimePoints(trk, p, time_points, near) ==
    {k \in 1..Len(time_points) :
        LET current_states ==
                {tid \in DOMAIN trk :
                    interpolate(tid, trk[tid], time_points[k], k \in near) # None}
        IN  Cardinality(current_states) >= 2 /\ p \subseteq current_states}

PairPassed(trk, p, time_points, near, outcome) ==
    {k \in PairTimePoints(trk, p, time_points, near) :
        /\ ~HostileCheckFails(trk[First(p)].attributes, trk[Second(p)].attributes)
        /\ k \in outcome[p]}

\* recognize, lines 238-261: persistence and duration of a pair.
PairHistory(trk, p, time_points, near, outcome) ==
    LET evals == PairTimePoints(trk, p, time_points, near)
        tps == {time_points[k] : k \in evals}
    IN  [pair |-> p,
         total_evals |-> Cardinality(evals),
         passed_count |-> Cardinality(PairPassed(trk, p, time_points, near, outcome)),
         duration |-> IF Cardinality(tps) >= 2 THEN MaxOf(tps) - MinOf(tps) ELSE 0]

\* persistence >= persistence_threshold, in tenths
PersistenceOk(h) ==
    h.total_evals > 0 /\ h.passed_count * 10 >= PersistenceThreshold * h.total_evals

IsValidPair(h) == PersistenceOk(h) /\ h.duration >= MinFormationDuration

\* _build_formations, lines 298-311: the connected components of the graph
\* of the valid pairs.
RECURSIVE Component(_, _)
Component(comp, edges) ==
    LET more == comp \cup UNION {e \in edges : e \cap comp # {}}
    IN  IF more = comp THEN comp ELSE Component(more, edges)

\* _build_formations, lines 316-329
BuildFormations(valid_pairs) ==
    LET nodes == UNION valid_pairs
        components == {c \in {Component({n}, valid_pairs) : n \in nodes} :
                          Cardinality(c) >= 2}
    IN  {[members |-> comp, member_pairs |-> PairsOf(comp)] : comp \in components}

\* _create_formation, lines 336-357: the members with too few states in the
\* window are dropped, the formation is dropped if fewer than two are left.
CreateFormation(trk, form_data, start_time, end_time) ==
    LET members == {tid \in form_data.members :
                       Len(get_states_in_range(trk[tid], start_time, end_time))
                           >= MinTrackPoints}
    IN  IF Cardinality(members) < 2 THEN None
        ELSE Some([members |-> [tid \in members |->
                                   get_states_in_range(trk[tid], start_time, end_time)],
                   time_range |-> <<start_time, end_time>>,
                   member_pairs |-> form_data.member_pairs])

NoRun == [ran |-> FALSE, history |-> {}, formations |-> {}]

\* recognize(time_range=None): the run as a value.
RecognizeRun(trk, near, outcome) ==
    IF DOMAIN trk = {} \/ CountSegmentStates(trk, DOMAIN trk) < 2
    THEN [ran |-> TRUE, history |-> {}, formations |-> {}]
    ELSE LET start_time == MinOf(SegmentTimes(trk))
             end_time == MaxOf(SegmentTimes(trk))
             time_points == TimePoints(start_time, end_time)
             history == {h \in {PairHistory(trk, p, time_points, near, outcome) :
                                   p \in PairsOf(DOMAIN trk)} : h.total_evals > 0}
             valid_pairs == {h.pair : h \in {g \in history : IsValidPair(g)}}
             made == {CreateFormation(trk, fd, start_time, end_time) :
                         fd \in BuildFormations(valid_pairs)}
         IN  [ran |-> TRUE, history |-> history,
              formations |-> {The(f) : f \in made \ {None}}]

\* The input data of a recognition: for each target, absent or a nation and
\* the times of its reports; the records of the targets follow each other in
\* the order of the targets.
StatesAt(times) == [i \in 1..Len(times) |-> MkState(times[i], 0, 90)]

TrackInputs ==
    {None} \cup {Some([nation |-> n, times |-> ts]) : n \in InputNations, ts \in InputTimes}

RECURSIVE DataList(_, _)
DataList(input, k) ==
    IF k > Len(TrackOrder) THEN <<>>
    ELSE LET t == TrackOrder[k]
             recs == IF input[t] = None THEN <<>>
                     ELSE [i \in 1..Len(The(input[t]).times) |->
                             Record(t, The(input[t]).nation,
                                    MkState(The(input[t]).times[i], 0, 90))]
         IN  recs \o DataList(input, k + 1)

\* process_data: the tracks are cleared, the records are processed and the
\* tracks finalized; every state is synced to the cache on the way.
process_data(data_list) ==
    LET processed == ProcessRecords(EmptyTracks, CacheNow, data_list)
        done == FinalizeAll(processed.tracks, processed.cache,
                            DOMAIN processed.tracks)
    IN  /\ engineOps < MaxEngineOps
        /\ engineOps' = engineOps + 1
        /\ tracks' = done.tracks
        /\ hashes' = done.cache.hashes
        /\ versions' = done.cache.versions
        /\ streams' = done.cache.streams
        /\ UNCHANGED <<lastRun, now, pc, loc, ret, ops, assigned, logWrites, lastWrite>>

\* recognize(): one run over the tracks of the engine.
recognize(near, outcome) ==
    /\ engineOps < MaxEngineOps
    /\ engineOps' = engineOps + 1
    /\ lastRun' = RecognizeRun(tracks, near, outcome)
    /\ UNCHANGED <<tracks, cacheVars>>

InitEngine ==
    /\ tracks = EmptyTracks
    /\ lastRun = NoRun
    /\ engineOps = 0

\* ------------------------------------------- cache/formation_store.py
\* The wall clock of the store counts half days; a confidence is a number
\* of ten-thousandths.  A sorted set is a function from members to scores,
\* a key of the backend that does not exist is outside the domain.
MapPut(f, k, v) == [x \in (DOMAIN f) \cup {k} |-> IF x = k THEN v ELSE f[x]]
MapDrop(f, K) == [x \in (DOMAIN f) \ K |-> f[x]]
EmptyMap == [x \in {} |-> 0]

FORMATION_TTL == RETENTION_DAYS * DayLen

\* strftime("%Y%m%d")
DateStr(t) == t \div DayLen

\* isoformat and fromisoformat
IsoFormat(t) == <<"iso", t>>
FromIsoFormat(text) == text[2]

\* _serialize and _deserialize of a field value
Serialize(value) == [packed |-> value]
Deserialize(bytes) == bytes.packed

\* round(x, n): to the nearest multiple of `unit`, ties to the even one
Round(x, unit) ==
    LET q == x \div unit
        r == x % unit
    IN  IF 2 * r < unit THEN q * unit
        ELSE IF 2 * r > unit THEN (q + 1) * unit
        ELSE IF q % 2 = 0 THEN q * unit ELSE (q + 1) * unit

\* A Formation with no members whose time range begins and ends at its
\* create time, as _dict_to_formation makes it (members={},
\* time_range=(now, now), create_time=now) and as a caller of the store may.
Formation(formation_id, confidence, create_time, dissolve_time) ==
    [formation_id |-> formation_id,
     formation_type |-> "Unknown",
     confidence |-> confidence,
     members |-> {},
     time_range |-> <<create_time, create_time>>,
     create_time |-> create_time,
     dissolve_time |-> dissolve_time]

\* Formation.to_dict: the identity and type, the confidence rounded to three
\* places, the status, the times (the create time and the time range are
\* under "time") and the ids of the members.
FormationToDict(f) ==
    [formation_id |-> f.formation_id,
     formation_type |-> f.formation_type,
     confidence |-> Round(f.confidence, 10),
     status |-> IF f.dissolve_time = None THEN "active" ELSE "dissolved",
     time |-> [create |-> IsoFormat(f.create_time),
               start |-> IsoFormat(f.time_range[1]),
               end |-> IsoFormat(f.time_range[2])],
     members |-> f.members]

\* _formation_to_dict
StoreDict(f) ==
    FormationToDict(f) @@
       [_stored_at |-> IsoFormat(wall),
        _expires_at |-> IsoFormat(wall + FORMATION_TTL)]

\* _generate_formation_id: "F", the create time and eight random hex digits;
\* a custom id is the text of a number.  Ids compare as their texts do.
GenerateFormationId(timestamp, hex) == <<1, timestamp, hex>>
CustomId(n) == <<0, n, 0>>

IdLess(a, b) ==
    \/ a[1] < b[1]
    \/ a[1] = b[1] /\ a[2] < b[2]
    \/ a[1] = b[1] /\ a[2] = b[2] /\ a[3] < b[3]

\* zrem of the members that are left in the sorted set
ZRemNone(zset, members) == zset

\* zrem
ZRem(zset, members) == MapDrop(zset, members)

\* zrange(key, 0, count - 1): by score, then by member, ascending
RECURSIVE ZRange(_, _)
ZRange(zset, count) ==
    IF count <= 0 \/ DOMAIN zset = {} THEN <<>>
    ELSE LET low == CHOOSE a \in DOMAIN zset : \A b \in (DOMAIN zset) \ {a} :
                        \/ zset[a] < zset[b]
                        \/ zset[a] = zset[b] /\ IdLess(a, b)
         IN  <<low>> \o ZRange(MapDrop(zset, {low}), count - 1)

\* The formation store as one value, for the calls that write to it in a loop.
StoreNow == [records |-> records, timeline |-> timeline, daily |-> daily]

\* store_formation: the fields, the expiry and the two index entries are
\* written by one pipeline; when the pipeline raises (~ok) nothing is
\* written and None is returned.
StoreFormation(st, formation, custom_id, hex, ok) ==
    LET formation_id == IF custom_id # None THEN The(custom_id)
                        ELSE GenerateFormationId(formation.create_time, hex)
        data == [StoreDict(formation) EXCEPT !.formation_id = formation_id]
        packed == [field \in DOMAIN data |-> Serialize(data[field])]
        old == IF formation_id \in DOMAIN st.records
               THEN Some(st.records[formation_id].hash) ELSE None
        score == formation.create_time
        date_str == DateStr(formation.create_time)
        old_daily == IF date_str \in DOMAIN st.daily
                     THEN st.daily[date_str].members ELSE EmptyMap
    IN  IF ok
        THEN [store |->
                [records |-> MapPut(st.records, formation_id,
                                [hash |-> HSetAll(old, packed),
                                 expire_at |-> wall + FORMATION_TTL]),
                 timeline |-> MapPut(st.timeline, formation_id, score),
                 daily |-> MapPut(st.daily, date_str,
                                [members |-> MapPut(old_daily, formation_id, score),
                                 expire_at |-> wall + FORMATION_TTL])],
              stored_id |-> Some(formation_id)]
        ELSE [store |-> st, stored_id |-> None]

store_formation(formation, custom_id, hex, ok) ==
    LET out == StoreFormation(StoreNow, formation, custom_id, hex, ok)
    IN  /\ storeOps < MaxStoreOps
        /\ storeOps' = storeOps + 1
        /\ records' = out.store.records
        /\ timeline' = out.store.timeline
        /\ daily' = out.store.daily
        /\ lastStore' = IF out.stored_id # None
                        THEN Some([formation |-> formation,
                                   stored_id |-> The(out.stored_id)])
                        ELSE None
        /\ lastDelete' = None
        /\ lastCleanup' = None
        /\ UNCHANGED wall

\* get_formation
get_formation(formation_id) ==
    IF formation_id \in DOMAIN records
    THEN Some([field \in DOMAIN records[formation_id].hash |->
                  Deserialize(records[formation_id].hash[field])])
    ELSE None

\* zrevrange(key, 0, count - 1): by score, then by member, descending
RECURSIVE ZRevRange(_, _)
ZRevRange(zset, count) ==
    IF count <= 0 \/ DOMAIN zset = {} THEN <<>>
    ELSE LET top == CHOOSE a \in DOMAIN zset : \A b \in (DOMAIN zset) \ {a} :
                        \/ zset[b] < zset[a]
                        \/ zset[b] = zset[a] /\ IdLess(b, a)
         IN  <<top>> \o ZRevRange(MapDrop(zset, {top}), count - 1)

\* get_latest_formations
get_latest_formations(count) ==
    LET formation_ids == ZRevRange(timeline, count)
        found == SelectSeq(formation_ids, LAMBDA fid : get_formation(fid) # None)
    IN  [i \in 1..Len(found) |-> The(get_formation(found[i]))]

\* delete_formation: the timeline entry, the entry of the daily index if the
\* record read back has a "create_time" field, then the record.
delete_formation(formation_id) ==
    LET data == get_formation(formation_id)
        has_create_time == data # None /\ "create_time" \in DOMAIN The(data)
        date_str == DateStr(FromIsoFormat(The(data).create_time))
    IN  /\ storeOps < MaxStoreOps
        /\ storeOps' = storeOps + 1
        /\ timeline' = ZRem(timeline, {formation_id})
        /\ daily' = IF has_create_time /\ date_str \in DOMAIN daily
                    THEN [daily EXCEPT ![date_str].members = ZRem(@, {formation_id})]
                    ELSE daily
        /\ records' = MapDrop(records, {formation_id})
        /\ lastDelete' = IF data = None THEN None
                         ELSE Some([formation_id |-> formation_id,
                                    date_str |-> DateStr(FromIsoFormat(The(data).time.create))])
        /\ lastStore' = None
        /\ lastCleanup' = None
        /\ UNCHANGED wall

\* cleanup_expired_data: the timeline entries up to now whose record is gone
\* are removed, and the daily indexes of the last 30 days that are older than
\* the retention are deleted.
cleanup_expired_data ==
    LET all_ids == {fid \in DOMAIN timeline : 0 <= timeline[fid] /\ timeline[fid] <= wall}
        to_remove == {fid \in all_ids : fid \notin DOMAIN records}
        old_dates == {d \in DOMAIN daily :
                        \E i \in 0..29 : /\ d = DateStr(wall - i * DayLen)
                                         /\ i > RETENTION_DAYS
                                         /\ DOMAIN daily[d].members # {}}
        RECURSIVE Count(_)
        Count(D) == IF D = {} THEN 0
                    ELSE LET d == CHOOSE x \in D : TRUE
                         IN  Cardinality(DOMAIN daily[d].members) + Count(D \ {d})
        stats == [formations_removed |-> Count(old_dates),
                  orphan_indexes_cleaned |-> Cardinality(to_remove)]
    IN  /\ storeOps < MaxStoreOps
        /\ storeOps' = storeOps + 1
        /\ timeline' = ZRem(timeline, to_remove)
        /\ daily' = MapDrop(daily, old_dates)
        /\ lastCleanup' = Some([stats |-> stats,
                                changed |-> timeline' # timeline \/ daily' # daily,
                                prev |-> IF lastCleanup = None THEN None
                                         ELSE Some(The(lastCleanup).stats),
                                ticked |-> lastCleanup # None /\ The(lastCleanup).tick,
                                tick |-> FALSE])
        /\ lastStore' = None
        /\ lastDelete' = None
        /\ UNCHANGED <<records, wall>>

\* The wall clock advances; the keys whose time to live has run out are gone.
AdvanceClock(d) ==
    LET live_records == {k \in DOMAIN records : records[k].expire_at > wall + d}
        live_daily == {k \in DOMAIN daily : daily[k].expire_at > wall + d}
        expired == live_records # DOMAIN records \/ live_daily # DOMAIN daily
    IN  /\ storeOps < MaxStoreOps
        /\ storeOps' = storeOps + 1
        /\ wall' = wall + d
        /\ records' = [k \in live_records |-> records[k]]
        /\ daily' = [k \in live_daily |-> daily[k]]
        /\ lastCleanup' = IF expired \/ lastCleanup = None THEN None
                          ELSE Some([The(lastCleanup) EXCEPT !.tick = TRUE])
        /\ lastStore' = IF expired THEN None ELSE lastStore
        /\ lastDelete' = lastDelete
        /\ UNCHANGED timeline

InitStore ==
    /\ records = EmptyMap
    /\ timeline = EmptyMap
    /\ daily = EmptyMap
    /\ wall = StartClock
    /\ storeOps = 0
    /\ lastStore = None
    /\ lastDelete = None
    /\ lastCleanup = None

\* ------------------------------------------- sync/websocket_manager.py
\* The handlers are coroutines of one event loop: a step of the model runs a
\* coroutine from where it was resumed to its next suspension.  A coroutine
\* is suspended by a send on a connection (await send_json); what is sent
\* before the suspension is with the client.
Subscribers(t) ==
    IF target_subscriptions[t] = None THEN {} ELSE The(target_subscriptions[t])

\* A message as a client receives it, with what was true when it was sent:
\* whether the client was subscribed to the target of the update, and
\* whether the formation it announces had been written to the store.
Message(task, c) ==
    [type |-> task.type, subject |-> task.subject, put |-> task.put,
     subscribed |-> task.type # "TARGET_UPDATE" \/ c \in Subscribers(task.subject),
     stored |-> task.stored]

\* send_personal_message, line 87, and broadcast, line 96
Deliver(box, c, task) == [box EXCEPT ![c] = Append(@, Message(task, c))]

\* A task made by create_task has not started; it takes its list of clients
\* when it starts.
NewTask(type, subject, put, stored) ==
    [type |-> type, subject |-> subject, put |-> put, stored |-> stored,
     started |-> FALSE, clients |-> <<>>]

\* connect
connect(c) ==
    /\ wsOps < MaxWsOps
    /\ wsOps' = wsOps + 1
    /\ active_connections' = active_connections \cup {c}
    /\ client_subscriptions' = [client_subscriptions EXCEPT ![c] = Some({})]
    /\ UNCHANGED <<target_subscriptions, inbox, tasks>>

\* disconnect
disconnect(c) ==
    /\ wsOps < MaxWsOps
    /\ wsOps' = wsOps + 1
    /\ target_subscriptions' =
          [t \in DOMAIN target_subscriptions |->
              IF /\ client_subscriptions[c] # None
                 /\ t \in The(client_subscriptions[c])
                 /\ target_subscriptions[t] # None
              THEN Some(The(target_subscriptions[t]) \ {c})
              ELSE target_subscriptions[t]]
    /\ client_subscriptions' = [client_subscriptions EXCEPT ![c] = None]
    /\ active_connections' = active_connections \ {c}
    /\ UNCHANGED <<inbox, tasks>>

\* subscribe_targets
subscribe_targets(c, target_ids) ==
    /\ wsOps < MaxWsOps
    /\ wsOps' = wsOps + 1
    /\ c \in active_connections
    /\ target_subscriptions' =
          [t \in DOMAIN target_subscriptions |->
              IF t \in target_ids THEN Some(Subscribers(t) \cup {c})
              ELSE target_subscriptions[t]]
    /\ client_subscriptions' =
          [client_subscriptions EXCEPT ![c] = Some(The(@) \cup target_ids)]
    /\ inbox' = Deliver(inbox, c, NewTask("SUBSCRIBE_CONFIRM", target_ids, 0, TRUE))
    /\ UNCHANGED <<active_connections, tasks>>

\* unsubscribe_targets
unsubscribe_targets(c, target_ids) ==
    /\ wsOps < MaxWsOps
    /\ wsOps' = wsOps + 1
    /\ target_subscriptions' =
          [t \in DOMAIN target_subscriptions |->
              IF t \in target_ids /\ target_subscriptions[t] # None
              THEN Some(The(target_subscriptions[t]) \ {c})
              ELSE target_subscriptions[t]]
    /\ client_subscriptions' =
          [client_subscriptions EXCEPT ![c] =
              IF @ # None THEN Some(The(@) \ target_ids) ELSE @]
    /\ UNCHANGED <<active_connections, inbox, tasks>>

\* notify_target_update, lines 106-117: the subscribers of the target when
\* the fan-out starts, in the order `order` lists the clients.
FanoutOf(t, order) ==
    IF target_subscriptions[t] = None THEN <<>>
    ELSE SelectSeq(order, LAMBDA c : c \in The(target_subscriptions[t]))

\* notify_target_update, lines 117-118, and broadcast, lines 94-96: the
\* coroutine runs until it has sent one message; a client of the list that
\* has no connection is passed over without a suspension.
RECURSIVE SendNext(_, _)
SendNext(box, task) ==
    IF task.clients = <<>> THEN [inbox |-> box, task |-> task]
    ELSE LET c == Head(task.clients)
             rest == [task EXCEPT !.clients = Tail(@)]
         IN  IF c \in active_connections
             THEN [inbox |-> Deliver(box, c, task),
                   task |-> rest]
             ELSE SendNext(box, rest)

SeqRemove(seq, i) == SubSeq(seq, 1, i - 1) \o SubSeq(seq, i + 1, Len(seq))

\* notify_target_update, lines 106-117, and broadcast, line 94: the clients a
\* fan-out goes through.
ClientsOf(task, order) ==
    IF task.type = "TARGET_UPDATE" THEN FanoutOf(task.subject, order)
    ELSE SelectSeq(order, LAMBDA c : c \in active_connections)

\* A task made by create_task starts and runs to its first suspension, or a
\* suspended fan-out is resumed and runs to its next suspension.
ResumeSend(i, order) ==
    /\ i \in 1..Len(tasks)
    /\ tasks[i].type \in {"TARGET_UPDATE", "FORMATION_DETECTED"}
    /\ LET task == IF tasks[i].started THEN tasks[i]
                   ELSE [tasks[i] EXCEPT !.started = TRUE,
                                         !.clients = ClientsOf(tasks[i], order)]
           out == SendNext(inbox, task)
       IN  /\ inbox' = out.inbox
           /\ tasks' = IF out.task.clients = <<>> THEN SeqRemove(tasks, i)
                       ELSE [tasks EXCEPT ![i] = out.task]
    /\ UNCHANGED <<active_connections, target_subscriptions,
                   client_subscriptions, wsOps>>

InitWs ==
    /\ active_connections = {}
    /\ target_subscriptions = [t \in CacheIds |-> None]
    /\ client_subscriptions = [c \in WsClients |-> None]
    /\ inbox = [c \in WsClients |-> <<>>]
    /\ tasks = <<>>
    /\ wsOps = 0

InitRun ==
    /\ streamClock = 0
    /\ last_recognize_time = None
    /\ runStart = None
    /\ lastRunEnd = None

InitIncr ==
    /\ changed_targets = {}
    /\ last_recognition_time = None
    /\ lastIncr = None

InitPreset ==
    /\ current_scene = "default"
    /\ lastPreset = None

InitStream ==
    /\ pending_targets = {}
    /\ putCount = 0
    /\ is_running = FALSE
    /\ loopState = "none"
    /\ dataTime = 0
    /\ running = 0

\* ---------------------------------- stream_service.py: push_data
\* cache_target_state(tid, state, emit_delta=True) on the cache `c`: the
\* new cache and what the call returns.
CacheTargetState(c, t, state) ==
    LET old_state_data == c.hashes[t]
        state_data == StateToDict(state, now) @@
                        [_hash |-> ComputeStateHash(state), _version |-> now]
    IN  [cache |-> SyncToCache(c, t, state),
         is_update |-> old_state_data # None,
         delta |-> IF old_state_data # None
                   THEN ComputeDelta(The(old_state_data), state_data)
                   ELSE None]

\* push_data, lines 108-144, from where the coroutine is resumed to its next
\* suspension: the fan-out of the target at hand goes on, then the next
\* targets are cached, marked pending and fanned out.  `r` holds the cache,
\* the pending set, the inboxes, the number of puts made, the targets left
\* and the clients left of the current fan-out.
RECURSIVE RunPush(_, _)
RunPush(r, order) ==
    IF r.fan.clients # <<>>
    THEN LET out == SendNext(r.inbox, r.fan)
         IN  IF out.inbox # r.inbox
             THEN [r EXCEPT !.inbox = out.inbox, !.fan = out.task]
             ELSE RunPush([r EXCEPT !.fan = out.task], order)
    ELSE IF r.targets # <<>>
    THEN LET target_data == Head(r.targets)
             tid == target_data.id
             put == CacheTargetState(r.cache, tid, target_data.state)
             notify == put.is_update /\ put.delta # None
         IN  RunPush([cache |-> put.cache,
                      pending |-> IF put.is_update THEN r.pending \cup {tid}
                                  ELSE r.pending,
                      inbox |-> r.inbox,
                      puts |-> r.puts + 1,
                      targets |-> Tail(r.targets),
                      fan |-> [type |-> "TARGET_UPDATE", subject |-> tid,
                               put |-> r.puts + 1, stored |-> TRUE,
                               started |-> TRUE,
                               clients |-> IF notify THEN FanoutOf(tid, order)
                                           ELSE <<>>]],
                     order)
    ELSE r

MIN_CHANGE_THRESHOLD_TENTHS == 1
PENDING_TRIGGER == 10

\* _should_trigger_recognize, lines 246-259, auto_recognize being true:
\* changed / total >= 0.1, or ten targets pending.
ShouldTriggerRecognize(changed_count, total_count, pending) ==
    \/ /\ total_count > 0
       /\ changed_count * 10 >= MIN_CHANGE_THRESHOLD_TENTHS * total_count
    \/ Cardinality(pending) >= PENDING_TRIGGER

\* push_data, lines 125-127: the reports of `targets` that update a target
\* the cache holds, or that an earlier report of the call has put there.
ChangedTargets(c, targets) ==
    {k \in 1..Len(targets) :
        \/ c.hashes[targets[k].id] # None
        \/ \E j \in 1..(k - 1) : targets[j].id = targets[k].id}

NoFan == [NewTask("TARGET_UPDATE", "", 0, TRUE) EXCEPT !.started = TRUE]

PushDone(r) == r.fan.clients = <<>> /\ r.targets = <<>>

\* The state after a run of push_data: a coroutine that is not done stays
\* among the tasks.
PushResult(r, others) ==
    /\ hashes' = r.cache.hashes
    /\ versions' = r.cache.versions
    /\ streams' = r.cache.streams
    /\ pending_targets' = r.pending
    /\ inbox' = r.inbox
    /\ putCount' = r.puts
    /\ tasks' = IF PushDone(r) THEN others
                ELSE Append(others, [type |-> "push", targets |-> r.targets,
                                     fan |-> r.fan])
    /\ UNCHANGED <<now, pc, loc, ret, ops, assigned, logWrites, lastWrite>>
    /\ UNCHANGED <<active_connections, target_subscriptions, client_subscriptions>>

\* push_data(targets) is called and runs to its first suspension.
push_data(targets, order) ==
    /\ is_running
    /\ wsOps < MaxWsOps
    /\ wsOps' = wsOps + 1
    /\ PushResult(RunPush([cache |-> CacheNow, pending |-> pending_targets,
                           inbox |-> inbox, puts |-> putCount,
                           targets |-> targets, fan |-> NoFan], order),
                  tasks)

\* A suspended push_data is resumed.
ResumePush(i, order) ==
    /\ i \in 1..Len(tasks)
    /\ tasks[i].type = "push"
    /\ PushResult(RunPush([cache |-> CacheNow, pending |-> pending_targets,
                           inbox |-> inbox, puts |-> putCount,
                           targets |-> tasks[i].targets, fan |-> tasks[i].fan],
                          order),
                  SeqRemove(tasks, i))
    /\ UNCHANGED wsOps

\* cache_targets_only, lines 238-272: every target is cached, and a task that
\* notifies the subscribers is made for every update with a delta.
RECURSIVE CacheTargetsOnly(_, _)
CacheTargetsOnly(r, targets) ==
    IF targets = <<>> THEN r
    ELSE LET target_data == Head(targets)
             tid == target_data.id
             put == CacheTargetState(r.cache, tid, target_data.state)
             has_delta == put.is_update /\ put.delta # None
         IN  CacheTargetsOnly(
                [cache |-> put.cache,
                 puts |-> r.puts + 1,
                 tasks |-> IF has_delta
                           THEN Append(r.tasks, NewTask("TARGET_UPDATE", tid, r.puts + 1, TRUE))
                           ELSE r.tasks,
                 updated |-> Append(r.updated,
                                [target_id |-> tid, put |-> r.puts + 1,
                                 has_delta |-> has_delta])],
                Tail(targets))

\* batch_update_targets, lines 35-51: after cache_targets_only a second task
\* is made for every update that has a delta, with the last event of the
\* delta log of the target: the event of the last put of the batch that
\* changed the target.
LastEventPut(all, tid) ==
    LET with_delta == SelectSeq(all, LAMBDA u : u.target_id = tid /\ u.has_delta)
    IN  with_delta[Len(with_delta)].put

RECURSIVE BatchEvents(_, _, _)
BatchEvents(ts, updated, all) ==
    IF updated = <<>> THEN ts
    ELSE LET update == Head(updated)
         IN  BatchEvents(IF update.has_delta
                         THEN Append(ts, NewTask("TARGET_UPDATE", update.target_id,
                                                 LastEventPut(all, update.target_id),
                                                 TRUE))
                         ELSE ts,
                         Tail(updated), all)

batch_update_targets(targets, emit_events) ==
    LET r == CacheTargetsOnly([cache |-> CacheNow, puts |-> putCount,
                               tasks |-> tasks, updated |-> <<>>], targets)
    IN  /\ wsOps < MaxWsOps
        /\ wsOps' = wsOps + 1
        /\ hashes' = r.cache.hashes
        /\ versions' = r.cache.versions
        /\ streams' = r.cache.streams
        /\ putCount' = r.puts
        /\ tasks' = IF emit_events THEN BatchEvents(r.tasks, r.updated, r.updated)
                    ELSE r.tasks
        /\ UNCHANGED <<now, pc, loc, ret, ops, assigned, logWrites, lastWrite>>
        /\ UNCHANGED <<active_connections, target_subscriptions,
                       client_subscriptions, inbox, pending_targets>>

\* ------------------------- formation_service.py: recognize, full mode
\* _dict_to_formation: the formation that is stored for a formation dict;
\* its create time is the time of the call.
DictToFormation(formation_id, confidence) ==
    Formation(formation_id, confidence, wall, None)

\* recognize, lines 141-151: the formations are stored one after the other
\* under the text of their formation_id; `out` lists what each store
\* returned.
RECURSIVE StoreAll(_, _, _, _, _, _)
StoreAll(st, fs, form_id, confidence, ok, out) ==
    IF fs = {} THEN [store |-> st, stored |-> out]
    ELSE LET f == CHOOSE x \in fs : TRUE
             r == StoreFormation(st, DictToFormation(form_id, confidence),
                                 Some(CustomId(form_id)), 0, ok)
         IN  StoreAll(r.store, fs \ {f}, form_id + 1, confidence, ok,
                      Append(out, [formation_id |-> form_id,
                                   stored_id |-> r.stored_id]))

\* _emit_formation_events: a task that announces the formation is made for
\* every formation of the run.
EmitFormationEvents(ts, stored) ==
    ts \o [k \in 1..Len(stored) |->
             NewTask("FORMATION_DETECTED", CustomId(stored[k].formation_id), 0,
                     stored[k].stored_id # None)]

\* recognize(targets) with a fresh engine: the data is processed, the
\* formations are recognised, stored and announced.  The reports are older
\* than five seconds, so interpolate does not go to the cache.
service_recognize(data_list, outcome, confidence, ok, emit_events) ==
    LET processed == ProcessRecords(EmptyTracks, CacheNow, data_list)
        done == FinalizeAll(processed.tracks, processed.cache,
                            DOMAIN processed.tracks)
        run == RecognizeRun(done.tracks, {}, outcome)
        out == StoreAll(StoreNow, run.formations, 1, confidence, ok, <<>>)
    IN  /\ engineOps < MaxEngineOps
        /\ engineOps' = engineOps + 1
        /\ tracks' = done.tracks
        /\ lastRun' = run
        /\ hashes' = done.cache.hashes
        /\ versions' = done.cache.versions
        /\ streams' = done.cache.streams
        /\ records' = out.store.records
        /\ timeline' = out.store.timeline
        /\ daily' = out.store.daily
        /\ lastStore' = None
        /\ lastDelete' = None
        /\ lastCleanup' = None
        /\ tasks' = IF emit_events /\ run.formations # {}
                    THEN EmitFormationEvents(tasks, out.stored) ELSE tasks
        /\ UNCHANGED <<now, pc, loc, ret, ops, assigned, logWrites, lastWrite>>
        /\ UNCHANGED <<wall, storeOps>>
        /\ UNCHANGED <<active_connections, target_subscriptions,
                       client_subscriptions, inbox, wsOps>>

\* ------------------------- stream_service.py: the recognition runs
\* _refresh_from_cache, lines 137-151: a cached state that is newer than the
\* last state of a track is added to the track, without a sync.
LatestLocal(track) ==
    IF track.current_segment # <<>>
    THEN Some(track.current_segment[Len(track.current_segment)])
    ELSE IF track.segments # <<>>
    THEN LET seg == track.segments[Len(track.segments)] IN Some(seg[Len(seg)])
    ELSE None

RefreshFromCache(trk, c) ==
    [tid \in DOMAIN trk |->
        LET cached == c.hashes[tid]
            latest_local == LatestLocal(trk[tid])
        IN  IF /\ cached # None
               /\ \/ latest_local = None
                  \/ DictToState(The(cached)).timestamp > The(latest_local).timestamp
            THEN add_state(trk[tid], DictToState(The(cached)))
            ELSE trk[tid]]

\* recognize_incremental, lines 124-127, store_formations_batch: the
\* formations of the run are stored under generated ids.
RECURSIVE StoreBatch(_, _, _, _, _)
StoreBatch(st, n, confidence, ok, hex) ==
    IF n = 0 THEN st
    ELSE StoreBatch(StoreFormation(st, Formation(n, confidence, wall, None),
                                   None, hex, ok).store,
                    n - 1, confidence, ok, hex)

\* What a run reads and writes, as one value.
EnvNow ==
    [cache |-> CacheNow, tracks |-> tracks, store |-> StoreNow, inbox |-> inbox,
     pending |-> pending_targets, lastRun |-> lastRun]

\* A call of _do_recognize that has not started.
RunTask(owner) ==
    [type |-> "run", owner |-> owner, started |-> FALSE, targets |-> {},
     formations |-> <<>>, sending |-> FALSE, clients |-> <<>>, conns |-> 0,
     subject |-> <<>>, found |-> 0, store_failed |-> FALSE, trigger |-> FALSE,
     satisfied |-> FALSE, added |-> {}]

\* _do_recognize, lines 216-227, with notify_formation_detected and
\* broadcast: from where the coroutine is resumed to its next suspension or
\* its end.  A formation is stored and, if that gave an id, announced to
\* every connection; the coroutine is suspended in every send.  The loop of
\* broadcast goes over the live dict of connections and raises when the
\* dict has changed its size since the loop began.
RECURSIVE Announce(_, _, _, _)
Announce(r, ok, hex, order) ==
    IF r.task.sending
    THEN IF Cardinality(active_connections) # r.task.conns
         THEN [r EXCEPT !.state = "failed"]
         ELSE IF r.task.clients # <<>>
         THEN [r EXCEPT
                 !.env.inbox = Deliver(@, Head(r.task.clients),
                                  NewTask("FORMATION_DETECTED", r.task.subject, 0,
                                          r.task.subject \in DOMAIN r.env.store.records)),
                 !.task.clients = Tail(@),
                 !.state = "suspended"]
         ELSE Announce([r EXCEPT !.task.sending = FALSE], ok, hex, order)
    ELSE IF r.task.formations = <<>> THEN [r EXCEPT !.state = "done"]
    ELSE LET formation_dict == Head(r.task.formations)
             out == StoreFormation(r.env.store,
                       DictToFormation(formation_dict.formation_id,
                                       formation_dict.confidence),
                       None, hex, ok)
             clients == SelectSeq(order, LAMBDA c : c \in active_connections)
             rest == [r EXCEPT !.task.formations = Tail(@), !.env.store = out.store,
                               !.task.store_failed = @ \/ out.stored_id = None,
                               !.task.added = @ \cup (DOMAIN out.store.records
                                                        \ DOMAIN r.env.store.records)]
         IN  IF out.stored_id = None \/ clients = <<>>
             THEN Announce(rest, ok, hex, order)
             ELSE [rest EXCEPT
                     !.env.inbox = Deliver(@, Head(clients),
                                      NewTask("FORMATION_DETECTED", The(out.stored_id), 0,
                                              The(out.stored_id) \in DOMAIN out.store.records)),
                     !.task.sending = TRUE,
                     !.task.clients = Tail(clients),
                     !.task.conns = Cardinality(active_connections),
                     !.task.subject = The(out.stored_id),
                     !.state = "suspended"]

\* _do_recognize, lines 213-227, from the first formation on: what the
\* engine has done is taken over and the formations are stored and
\* announced.
StoreAndAnnounce(e, task, targets_to_recognize, cache, trk, run, n, confidence, ok, hexes, order) ==
    Announce([env |-> [cache |-> cache,
                       tracks |-> trk,
                       store |-> StoreBatch(e.store, n, confidence, ok, hexes[1]),
                       inbox |-> e.inbox,
                       pending |-> {},
                       lastRun |-> run],
              task |-> [task EXCEPT
                          !.started = TRUE,
                          !.targets = targets_to_recognize,
                          !.found = n,
                          !.added = DOMAIN StoreBatch(e.store, n, confidence, ok,
                                                      hexes[1]).records
                                        \ DOMAIN e.store.records,
                          !.formations =
                              [k \in 1..n |->
                                  [formation_id |-> k,
                                   confidence |-> Round(confidence, 10)]]],
              state |-> "run"],
             ok, hexes[2], order)

\* recognize_incremental, lines 113-129: the tracks are refreshed from the
\* cache and recognised; the formations are stored.  The reports are older
\* than five seconds, so interpolate does not go to the cache.
Recognized(e, task, targets_to_recognize, cache, trk, run, confidence, ok, hexes, order) ==
    StoreAndAnnounce(e, task, targets_to_recognize, cache, trk, run,
                     Cardinality(run.formations), confidence, ok, hexes, order)

RecognizeIncremental(e, task, targets_to_recognize, cache, trk, outcome, confidence, ok, hexes, order) ==
    Recognized(e, task, targets_to_recognize, cache, trk,
               RecognizeRun(trk, {}, outcome), confidence, ok, hexes, order)

\* process_data_with_cache, lines 54-61: every record is processed.
ProcessDataWithCache(e, task, targets_to_recognize, processed, outcome, confidence, ok, hexes, order) ==
    RecognizeIncremental(e, task, targets_to_recognize, processed.cache,
                         RefreshFromCache(processed.tracks, processed.cache),
                         outcome, confidence, ok, hexes, order)

\* _do_recognize, lines 187-211, from its call: the pending set is taken,
\* the cached states of its targets are made into records, which have no
\* nation, and given to the engine.
DoRecognize(e, task, outcome, confidence, ok, hexes, order) ==
    IF e.pending = {} THEN [env |-> e, task |-> task, state |-> "none"]
    ELSE LET tids == SelectSeq(TrackOrder,
                        LAMBDA tid : /\ tid \in e.pending
                                     /\ e.cache.hashes[tid] # None)
             target_states ==
                 [k \in 1..Len(tids) |->
                     Record(tids[k], None, DictToState(The(e.cache.hashes[tids[k]])))]
         IN  IF Len(target_states) < 2
             THEN [env |-> [e EXCEPT !.pending = {}], task |-> task, state |-> "done"]
             ELSE ProcessDataWithCache(
                     e, [task EXCEPT !.satisfied = \A p \in DOMAIN outcome :
                                                      outcome[p] # {}],
                     e.pending,
                     ProcessRecords(e.tracks, e.cache, target_states),
                     outcome, confidence, ok, hexes, order)

\* The runs that have taken a pending set and are not done.
RunsInProgress(ts) ==
    Len(SelectSeq(ts, LAMBDA task : task.type = "run" /\ task.started))

\* The state after a step of a run.  A run that failed puts its targets
\* back, lines 239-244; a run that is suspended stays among the tasks; the
\* background loop sleeps again when its run is over.
RunResult(r, others, started) ==
    LET over == r.state # "suspended" IN
    /\ hashes' = r.env.cache.hashes
    /\ versions' = r.env.cache.versions
    /\ streams' = r.env.cache.streams
    /\ tracks' = r.env.tracks
    /\ lastRun' = r.env.lastRun
    /\ records' = r.env.store.records
    /\ timeline' = r.env.store.timeline
    /\ daily' = r.env.store.daily
    /\ inbox' = r.env.inbox
    /\ pending_targets' = IF r.state = "failed"
                          THEN r.env.pending \cup r.task.targets
                          ELSE r.env.pending
    /\ tasks' = IF over THEN others ELSE Append(others, r.task)
    /\ loopState' = IF r.task.owner = "loop"
                    THEN (IF over THEN "sleeping" ELSE "running")
                    ELSE loopState
    /\ running' = IF started /\ r.state # "none"
                  THEN RunsInProgress(others) + 1 ELSE running
    /\ streamClock' = streamClock
    /\ last_recognize_time' = IF r.state = "done" /\ r.task.started
                               THEN Some(streamClock) ELSE last_recognize_time
    /\ runStart' = IF started /\ r.task.started
                   THEN Some([owner |-> r.task.owner,
                              trigger |-> r.task.trigger,
                              elapsed |-> IF last_recognize_time = None THEN None
                                          ELSE Some(streamClock - The(last_recognize_time))])
                   ELSE None
    /\ lastRunEnd' = IF over /\ r.task.started
                     THEN Some([owner |-> r.task.owner,
                                targets |-> r.task.targets,
                                found |-> r.task.found,
                                added |-> r.task.added,
                                satisfied |-> r.task.satisfied,
                                failed |-> r.state = "failed" \/ r.task.store_failed])
                     ELSE None
    /\ lastStore' = None
    /\ lastDelete' = None
    /\ lastCleanup' = None
    /\ UNCHANGED <<now, pc, loc, ret, ops, assigned, logWrites, lastWrite>>
    /\ UNCHANGED <<engineOps, wall, storeOps>>
    /\ UNCHANGED <<active_connections, target_subscriptions,
                   client_subscriptions, wsOps>>

RECOGNIZE_INTERVAL == 5

\* The wall clock of the service advances by one sleep of the background
\* loop.
Wait ==
    /\ streamClock + RECOGNIZE_INTERVAL <= MaxStreamClock
    /\ streamClock' = streamClock + RECOGNIZE_INTERVAL
    /\ UNCHANGED <<last_recognize_time, runStart, lastRunEnd>>

\* _auto_recognize_loop, lines 163-178: the loop wakes up, finds targets
\* pending and the last run long enough ago, and runs a recognition.
auto_recognize_loop(outcome, confidence, ok, hexes, order) ==
    /\ is_running
    /\ loopState = "sleeping"
    /\ pending_targets # {}
    /\ IF last_recognize_time = None THEN TRUE
       ELSE streamClock - The(last_recognize_time) >= RECOGNIZE_INTERVAL
    /\ RunResult(DoRecognize(EnvNow, RunTask("loop"), outcome, confidence, ok,
                             hexes, order),
                 tasks, TRUE)
    /\ UNCHANGED <<putCount, is_running, dataTime>>

\* force_recognize: a task that runs a recognition is made.
force_recognize ==
    /\ pending_targets # {}
    /\ wsOps < MaxStreamOps
    /\ wsOps' = wsOps + 1
    /\ tasks' = Append(tasks, RunTask("force"))
    /\ UNCHANGED <<active_connections, target_subscriptions,
                   client_subscriptions, inbox>>

\* shutdown: the service stops, with a last recognition if targets are
\* pending.
shutdown ==
    /\ is_running
    /\ wsOps < MaxStreamOps
    /\ wsOps' = wsOps + 1
    /\ is_running' = FALSE
    /\ tasks' = IF pending_targets # {} THEN Append(tasks, RunTask("shutdown"))
                ELSE tasks
    /\ UNCHANGED <<active_connections, target_subscriptions,
                   client_subscriptions, inbox>>
    /\ UNCHANGED <<pending_targets, putCount, loopState, dataTime, running>>

\* A task that runs a recognition starts, or a suspended run is resumed.
ResumeRun(i, outcome, confidence, ok, hexes, order) ==
    /\ i \in 1..Len(tasks)
    /\ tasks[i].type = "run"
    /\ IF tasks[i].started
       THEN RunResult(Announce([env |-> EnvNow, task |-> tasks[i], state |-> "run"],
                               ok, hexes[2], order),
                      SeqRemove(tasks, i), FALSE)
       ELSE RunResult(DoRecognize(EnvNow, tasks[i], outcome, confidence, ok,
                                  hexes, order),
                      SeqRemove(tasks, i), TRUE)
    /\ UNCHANGED <<putCount, is_running, dataTime>>

\* What a run reads after push_data has returned.
AfterPush(pushed) ==
    [cache |-> pushed.cache, tracks |-> tracks, store |-> StoreNow,
     inbox |-> pushed.inbox, pending |-> pushed.pending, lastRun |-> lastRun]

\* push_stream_data, lines 37-45: after push_data, with `immediate` a
\* recognition if targets are pending.
Pushed(pushed, trigger, time, immediate, outcome, confidence, ok, hexes, order) ==
    /\ is_running
    /\ PushDone(pushed)
    /\ putCount' = pushed.puts
    /\ dataTime' = time
    /\ RunResult(IF immediate
                 THEN DoRecognize(AfterPush(pushed),
                                  [RunTask("push") EXCEPT !.trigger = trigger],
                                  outcome, confidence, ok, hexes, order)
                 ELSE [env |-> AfterPush(pushed), task |-> RunTask("push"),
                       state |-> "none"],
                 tasks, TRUE)
    /\ UNCHANGED is_running

\* push_stream_data: push_data(targets), then the rest.  No client is
\* subscribed to a target, so no send suspends push_data.
push_stream_data(targets, time, immediate, outcome, confidence, ok, hexes, order) ==
    Pushed(RunPush([cache |-> CacheNow, pending |-> pending_targets,
                    inbox |-> inbox, puts |-> putCount,
                    targets |-> targets, fan |-> NoFan], order),
           ShouldTriggerRecognize(Cardinality(ChangedTargets(CacheNow, targets)),
                                  Len(targets),
                                  pending_targets \cup
                                      {targets[k].id : k \in ChangedTargets(CacheNow, targets)}),
           time, immediate, outcome, confidence, ok, hexes, order)

\* ------------------------------------------------------------ specifications
InitSync ==
    /\ sessions = [x \in SessionIds |-> None]
    /\ lastPull = None
    /\ clientV = None
    /\ clientSync = None
    /\ putsSince = {}

Init ==
    /\ InitCache
    /\ InitSync
    /\ InitRules
    /\ InitEngine
    /\ InitStore
    /\ lastInterp = None
    /\ InitWs
    /\ InitStream
    /\ sendFailed = {}
    /\ lastAck = None
    /\ InitRun
    /\ InitIncr
    /\ InitPreset
    /\ cleaning = [who \in CleanupCallers |-> None]
    /\ segTrack = TargetTrack({"RED"})
    /\ added = <<>>
    /\ sealed = FALSE
    /\ lastBuild = None
    /\ lastDistance = None
    /\ bcast = None /\ lastBcast = None
    /\ lastKeys = None

\* Concurrent producers on one target of the cache.
Next ==
    \/ \E p \in Producers, t \in CacheTargets, s \in InputStates, emit \in BOOLEAN :
          PutStart(p, t, s, emit) /\ UNCHANGED <<syncVars, ruleVars, extVars>>
    \/ \E p \in Producers : PutRead(p) /\ UNCHANGED <<syncVars, ruleVars, extVars>>
    \/ \E p \in Producers : PutExec(p) /\ UNCHANGED <<syncVars, ruleVars, extVars>>
    \/ \E p \in Producers : PutFail(p) /\ UNCHANGED <<syncVars, ruleVars, extVars>>
    \/ \E p \in Producers, xaddOk \in BOOLEAN : PutEmit(p, xaddOk) /\ UNCHANGED <<syncVars, ruleVars, extVars>>
    \/ \E t \in CacheTargets, reason \in DeleteReasons, xaddOk \in BOOLEAN :
          Delete(t, reason, xaddOk) /\ UNCHANGED <<syncVars, ruleVars, extVars>>
    \/ Tick /\ UNCHANGED <<syncVars, ruleVars, extVars>>

Spec == Init /\ [][Next]_vars

OptTargetIds == {None, Some({"t1"}), Some(Targets)}
\* Version maps a caller may hold: version 0 (older than every write) or
\* the latest clock value (not older than any write).
SinceMaps == {[t \in S |-> v] : S \in SUBSET Targets, v \in {0, MaxClock}}
OptSince == {None} \cup {Some(m) : m \in SinceMaps}
OptSessionIds == {None} \cup {Some(x) : x \in SessionIds}

\* The delta sync service over the cache, each handler one step.
NextSync ==
    \/ \E t \in CacheTargets, s \in InputStates : SyncPut(t, s) /\ UNCHANGED <<ruleVars, extVars>>
    \/ \E t \in CacheTargets, reason \in DeleteReasons : SyncDelete(t, reason) /\ UNCHANGED <<ruleVars, extVars>>
    \/ Tick /\ UNCHANGED <<syncVars, ruleVars, extVars>>
    \/ \E x \in SessionIds, c \in ClientIds, tids \in OptTargetIds :
          create_sync_session(x, c, tids) /\ UNCHANGED <<ruleVars, extVars>>
    \/ \E x \in SessionIds : close_sync_session(x) /\ UNCHANGED <<ruleVars, extVars>>
    \/ \E x \in OptSessionIds, tids \in OptTargetIds, since \in OptSince :
          pull_delta(x, tids, since) /\ UNCHANGED <<ruleVars, extVars>>

SpecSync == Init /\ [][NextSync]_vars

\* A client that bootstraps with a full pull and then pulls incrementally.
NextClient ==
    \/ \E t \in Targets, s \in InputStates : SyncPut(t, s) /\ UNCHANGED <<ruleVars, extVars>>
    \/ \E t \in Targets, reason \in DeleteReasons : SyncDelete(t, reason) /\ UNCHANGED <<ruleVars, extVars>>
    \/ Tick /\ UNCHANGED <<syncVars, ruleVars, extVars>>
    \/ ClientPullFull /\ UNCHANGED <<ruleVars, extVars>>
    \/ ClientPull /\ UNCHANGED <<ruleVars, extVars>>

SpecClient == Init /\ [][NextClient]_vars

\* Outcomes of the rules of a list of n rules.
Outcomes(n) == [1..n -> {RuleResult(b, IF b THEN 10 ELSE 0, q) :
                            b \in BOOLEAN, q \in InputPriorities}]

\* The rule manager: registration of rules and evaluation of a pair.
NextRules ==
    \/ \E name \in RuleNames, q \in InputPriorities :
          add_rule(BaseRule(name, q)) /\ UNCHANGED <<cacheVars, syncVars, extVars>>
    \/ \E name \in RuleNames : remove_rule(name) /\ UNCHANGED <<cacheVars, syncVars, extVars>>
    \/ \E g \in RuleGroups : enable_group(g) /\ UNCHANGED <<cacheVars, syncVars, extVars>>
    \/ \E g \in RuleGroups : disable_group(g) /\ UNCHANGED <<cacheVars, syncVars, extVars>>
    \/ clear /\ UNCHANGED <<cacheVars, syncVars, extVars>>
    \/ \E outcome \in Outcomes(Len(rules)) :
          evaluate_pair(outcome) /\ UNCHANGED <<cacheVars, syncVars, extVars>>

SpecRules == Init /\ [][NextRules]_vars

\* Verdicts of the rules other than the hostile check, for each pair of
\* tracks: passed at no time point or at every time point.
PointIndexes == 1..(MinFormationDuration \div TimeStep + 1)
Verdicts(ids) == [PairsOf(ids) -> {{}, PointIndexes}]
NearNow == {{}, {1}}

\* The recognition engine: data is processed, then recognised.
NextEngine ==
    \/ \E input \in [TrackIds -> TrackInputs] :
          process_data(DataList(input, 1)) /\ UNCHANGED engineFrame
    \/ \E near \in NearNow, outcome \in Verdicts(DOMAIN tracks) :
          recognize(near, outcome) /\ UNCHANGED engineFrame
    \/ Tick /\ UNCHANGED <<engineVars, engineFrame>>

SpecEngine == Init /\ [][NextEngine]_vars

\* The formations a caller stores: a confidence that rounding leaves alone
\* or changes, created now or RETENTION_DAYS ago.
InputFormations ==
    {Formation(1, c, ct, None) :
        c \in {8000, 8127}, ct \in {wall, wall - RETENTION_DAYS * DayLen}}
OptCustomIds == {None, Some(CustomId(1))}
HexDigits == {1, 2}
ClockSteps == {1, FORMATION_TTL}

\* The formation store: its operations and the passing of time.
NextStore ==
    \/ \E f \in InputFormations, custom_id \in OptCustomIds, hex \in HexDigits,
          ok \in BOOLEAN :
          store_formation(f, custom_id, hex, ok) /\ UNCHANGED storeFrame
    \/ \E fid \in DOMAIN timeline :
          delete_formation(fid) /\ UNCHANGED storeFrame
    \/ cleanup_expired_data /\ UNCHANGED storeFrame
    \/ \E d \in ClockSteps : AdvanceClock(d) /\ UNCHANGED storeFrame

SpecStore == Init /\ [][NextStore]_vars

\* Headings and fractions between two reports that are FractionDen seconds
\* apart: the quarter turns, their neighbours and the wrap at 0/360.
InputHeadings == {0, 10, 90, 170, 180, 190, 270, 350}
FractionDen == 4

\* interpolate on a track with a report of heading h1 and a later one of
\* heading h2, at num/FractionDen of the way: the heading of the state it
\* returns, in FractionDen-ths of a degree.  At the time of a report
\* interpolate returns that report.
TrackInterpolate(h1, h2, num) ==
    /\ lastInterp' =
          Some([before |-> h1, after |-> h2, num |-> num,
                heading |-> IF num = 0 THEN h1 * FractionDen
                            ELSE IF num = FractionDen THEN h2 * FractionDen
                            ELSE InterpolateHeading(h1, h2, num, FractionDen)])
    /\ UNCHANGED interpFrame

NextInterp ==
    \E h1 \in InputHeadings, h2 \in InputHeadings, num \in 0..FractionDen :
        TrackInterpolate(h1, h2, num)

SpecInterp == Init /\ [][NextInterp]_vars

\* initialize: the service runs and its background loop sleeps.
initialize ==
    /\ loopState = "none"
    /\ is_running' = TRUE
    /\ loopState' = "sleeping"
    /\ UNCHANGED <<pending_targets, putCount, dataTime, running>>

\* The targets a producer sends in one call: one report of one target.
InputOrders == {<<"c1", "c2">>, <<"c2", "c1">>}
FanTargets == {"t1"}
InputTargets == {<<[id |-> t, state |-> s]>> : t \in FanTargets, s \in InputStates}

\* The subscription bus: clients come, subscribe, unsubscribe and go while
\* producers push reports and update targets in batches.
NextFanout ==
    \/ initialize /\ UNCHANGED initFrame
    \/ \E c \in WsClients : connect(c) /\ UNCHANGED wsFrame
    \/ \E c \in WsClients : disconnect(c) /\ UNCHANGED wsFrame
    \/ \E c \in WsClients, t \in FanTargets :
          subscribe_targets(c, {t}) /\ UNCHANGED wsFrame
    \/ \E c \in WsClients, t \in FanTargets :
          unsubscribe_targets(c, {t}) /\ UNCHANGED wsFrame
    \/ \E targets \in InputTargets, order \in InputOrders :
          push_data(targets, order) /\ UNCHANGED pushFrame
    \/ \E i \in 1..Len(tasks), order \in InputOrders :
          ResumePush(i, order) /\ UNCHANGED pushFrame
    \/ \E targets \in InputTargets, emit_events \in BOOLEAN :
          batch_update_targets(targets, emit_events) /\ UNCHANGED pushFrame
    \/ \E i \in 1..Len(tasks), order \in InputOrders :
          ResumeSend(i, order) /\ UNCHANGED wsFrame

SpecFanout == Init /\ [][NextFanout]_vars

\* The /recognize service: clients come and go, data is recognised and the
\* formations are announced to the clients that are connected.
StreamClients == {"c1"}
StreamOrders == {<<"c1">>}
serviceFrame == <<syncVars, ruleVars, interpVars, streamVars,
    sendVars,
    ackVars,
    runVars,
    incrVars,
    presetVars,
    cleanVars,
    trackVars,
    buildVars,
    distVars,
    bcastVars,
    keysVars>>
InputConfidences == {8000, 8127}

\* The data of a request: reports of two targets over the shortest time a
\* formation lasts, each target of either nation.
ServiceTargets == {"t1", "t2"}
ServiceInputs ==
    {input \in [TrackIds -> TrackInputs] :
        \A t \in TrackIds :
            IF t \in ServiceTargets
            THEN input[t] # None /\ The(input[t]).times = <<0, 10, 20, 30>>
            ELSE input[t] = None}

NextService ==
    \/ \E c \in StreamClients : connect(c) /\ UNCHANGED wsFrame
    \/ \E c \in StreamClients : disconnect(c) /\ UNCHANGED wsFrame
    \/ \E input \in ServiceInputs, outcome \in Verdicts(ServiceTargets),
          confidence \in InputConfidences, ok \in BOOLEAN, emit_events \in BOOLEAN :
          service_recognize(DataList(input, 1), outcome, confidence, ok, emit_events)
             /\ UNCHANGED serviceFrame
    \/ \E i \in 1..Len(tasks), order \in StreamOrders :
          ResumeSend(i, order) /\ UNCHANGED wsFrame

SpecService == Init /\ [][NextService]_vars

\* The stream service: producers report two targets, t1 as RED and t2 as
\* BLUE, every 15 seconds with one pause of 150 seconds; each push carries
\* a report of both.
StreamTargets == {"t1", "t2"}
StreamNations == ("t1" :> "RED") @@ ("t2" :> "BLUE")
InputSchedule == <<15, 30, 45, 60, 210, 225>>
StreamPayload(time) ==
    <<[id |-> "t1", state |-> MkState(time, time, 90)],
      [id |-> "t2", state |-> MkState(time, time, 90)]>>
\* What a run is given: the verdict of the rules, the confidence of the
\* pairs, whether the store's pipeline works, and the random digits of the
\* two ids it generates.
RunInputs ==
    [outcome : Verdicts(StreamTargets), confidence : {8127}, ok : BOOLEAN,
     hexes : {<<1, 2>>, <<2, 2>>}, order : StreamOrders]
NoInputs == {CHOOSE in \in RunInputs : TRUE}
runFrame == <<syncVars, ruleVars, interpVars,
    sendVars,
    ackVars,
    incrVars,
    presetVars,
    cleanVars,
    trackVars,
    buildVars,
    distVars,
    bcastVars,
    keysVars>>

NextStream ==
    \/ initialize /\ UNCHANGED initFrame
    \/ \E c \in StreamClients :
          wsOps < MaxStreamOps /\ connect(c) /\ UNCHANGED wsFrame
    \/ \E c \in StreamClients :
          wsOps < MaxStreamOps /\ disconnect(c) /\ UNCHANGED wsFrame
    \/ \E k \in 1..Len(InputSchedule), immediate \in BOOLEAN :
          \E in \in IF immediate THEN RunInputs ELSE NoInputs :
              /\ dataTime < InputSchedule[k]
              /\ \A j \in 1..(k - 1) : InputSchedule[j] <= dataTime
              /\ push_stream_data(StreamPayload(InputSchedule[k]), InputSchedule[k],
                                  immediate, in.outcome, in.confidence, in.ok,
                                  in.hexes, in.order)
              /\ UNCHANGED runFrame
    \/ \E in \in RunInputs :
          auto_recognize_loop(in.outcome, in.confidence, in.ok, in.hexes, in.order)
             /\ UNCHANGED runFrame
    \/ force_recognize /\ UNCHANGED wsFrame
    \/ \E i \in 1..Len(tasks), in \in RunInputs :
          ResumeRun(i, in.outcome, in.confidence, in.ok, in.hexes, in.order)
             /\ UNCHANGED runFrame
    \/ shutdown /\ UNCHANGED stopFrame
    \/ Wait /\ UNCHANGED waitFrame

SpecStream == Init /\ [][NextStream]_vars

\* ============================================================= properties
StrictlyIncreasing(seq) == \A i \in 1..(Len(seq) - 1) : seq[i] < seq[i + 1]
NonDecreasing(seq) == \A i \in 1..(Len(seq) - 1) : seq[i] <= seq[i + 1]
EventVersions(t) == [i \in 1..Len(streams[t]) |-> streams[t][i].version]
UpdateIndexes(t) ==
    {i \in 1..Len(streams[t]) : streams[t][i].event_type = "UPDATE"}

\* C1: the versions assigned to the successive successful puts on a target
\* are strictly increasing, also for two puts within one millisecond.
C1_PutVersionsStrictlyIncrease ==
    \A t \in Targets : StrictlyIncreasing(assigned[t])

\* C2: the value read by get_target_version never decreases, whatever puts
\* and deletes are made on the target.
C2_VersionNeverDecreases ==
    [][\A t \in Targets : get_target_version(t)' >= get_target_version(t)]_vars

C4_LogVersionsNonDecreasing ==
    \A t \in Targets :
        /\ \A i \in UpdateIndexes(t) :
              /\ logWrites[t][i] \in 1..Len(assigned[t])
              /\ streams[t][i].version = assigned[t][logWrites[t][i]]
        /\ NonDecreasing(EventVersions(t))

\* C5: the UPDATE events of a target are appended in strictly increasing
\* version order, which is the order in which the state writes of their puts
\* took effect.
C5_EventsFollowWrites ==
    \A t \in Targets : \A i, j \in UpdateIndexes(t) :
        i < j => /\ streams[t][i].version < streams[t][j].version
                 /\ logWrites[t][i] < logWrites[t][j]

\* C6: a pull with the version map the client holds since its last sync
\* returns exactly the targets that were put since then.
C6_ClientPullExact ==
    clientSync # None => The(clientSync).targets = The(clientSync).expected

\* C7 as stated: full_sync is true exactly when the since_versions argument
\* is absent or empty.
C7_FullSyncIffSinceEmpty ==
    lastPull # None =>
        (The(lastPull).full_sync <=> ~The(lastPull).since_given)

\* C7 as amended: full_sync is true exactly when the since_versions argument
\* is absent or empty and the session, if one is found, has recorded no
\* versions.
C7_FullSyncIffNoBase ==
    lastPull # None =>
        (The(lastPull).full_sync <=>
            (~The(lastPull).since_given /\ ~The(lastPull).session_base))

\* C7 witness: a pull without since_versions on a session that has recorded
\* versions answers full_sync = false.
C7_Witness ==
    /\ lastPull # None
    /\ ~The(lastPull).since_given
    /\ The(lastPull).session_base
    /\ ~The(lastPull).full_sync

\* C8: every target of since_versions that has no state in the cache is
\* listed in removed_targets.
C8_RemovedListed ==
    lastPull # None =>
        \A t \in The(lastPull).since_ids \cap The(lastPull).absent :
            t \in The(lastPull).removed

\* C9: get_all_active_targets is exactly the set of the targets that have a
\* stored state.
C9_AllActiveExact ==
    get_all_active_targets = {t \in Targets : get_target_state(t) # None}

CriticalFailures(e) ==
    {k \in 1..Len(e.sorted_rules) :
        LET i == e.sorted_rules[k]
        IN  /\ e.rules[i].enabled
            /\ e.outcome[i].priority = CRITICAL
            /\ ~e.outcome[i].passed}
FirstOf(S) == CHOOSE k \in S : \A m \in S : k <= m
RanAfter(e, k) ==
    {m \in (k + 1)..Len(e.sorted_rules) :
        \E n \in 1..Len(e.evaluated) : e.evaluated[n] = e.sorted_rules[m]}

\* C10: when an enabled rule returns a failing CRITICAL result, the
\* evaluation has passed = false and confidence = 0, and no rule behind the
\* first such rule in ascending priority order is evaluated.
C10_CriticalFailureShortCircuits ==
    lastEval # None =>
        LET e == The(lastEval)
        IN  CriticalFailures(e) # {} =>
                /\ e.evaluation.passed = FALSE
                /\ e.evaluation.confidence.num = 0
                /\ e.evaluation.summary.critical_failed
                /\ RanAfter(e, FirstOf(CriticalFailures(e))) = {}

\* C10 witness: an evaluation in which a rule that is not itself CRITICAL
\* returned a failing CRITICAL result and an enabled rule stood behind it.
C10_Witness ==
    /\ lastEval # None
    /\ LET e == The(lastEval)
       IN  /\ CriticalFailures(e) # {}
           /\ LET k == FirstOf(CriticalFailures(e))
              IN  /\ e.rules[e.sorted_rules[k]].priority # CRITICAL
                  /\ \E m \in (k + 1)..Len(e.sorted_rules) :
                        e.rules[e.sorted_rules[m]].enabled

PersistenceOf(p) == {h \in lastRun.history : h.pair = p}

\* C11: every formation returned by a recognition run has at least two
\* members, every member has at least MinTrackPoints states inside the
\* analysis window, and every pair of members recorded for the formation had
\* a persistence of at least the persistence threshold in that run.
C11_FormationsWellFormed ==
    \A f \in lastRun.formations :
        /\ Cardinality(DOMAIN f.members) >= 2
        /\ \A tid \in DOMAIN f.members : Len(f.members[tid]) >= MinTrackPoints
        /\ \A p \in f.member_pairs :
              \E h \in PersistenceOf(p) : PersistenceOk(h)

NewestStrictly(fid) ==
    \A other \in (DOMAIN timeline) \ {fid} : timeline[other] < timeline[fid]
NewestOrTied(fid) ==
    \A other \in (DOMAIN timeline) \ {fid} : timeline[other] <= timeline[fid]

\* C13 as stated: after store(f), get of the id under which f was stored
\* returns a record whose fields equal those of f, and latest(1) returns that
\* record first when no stored formation has a greater create-time.
C13_StoreGetEqualsFormation ==
    lastStore # None =>
        LET f == The(lastStore).formation
            fid == The(lastStore).stored_id
            r == get_formation(fid)
        IN  /\ r # None
            /\ The(r).formation_type = f.formation_type
            /\ The(r).confidence = f.confidence
            /\ FromIsoFormat(The(r).time.create) = f.create_time
            /\ NewestOrTied(fid) => get_latest_formations(1) = <<The(r)>>

\* C13: after store(f), get of the id under which f was stored returns the
\* dict of f with the confidence rounded to three places, the stored id as
\* formation_id and the stamps of the store, and latest(1) returns that record
\* first when every other stored formation has a smaller create-time.
C13_StoreGetRoundTrip ==
    lastStore # None =>
        LET f == The(lastStore).formation
            fid == The(lastStore).stored_id
            r == get_formation(fid)
        IN  /\ r # None
            /\ The(r).formation_id = fid
            /\ The(r).formation_type = f.formation_type
            /\ The(r).confidence = Round(f.confidence, 10)
            /\ The(r).status = "active"
            /\ FromIsoFormat(The(r).time.create) = f.create_time
            /\ {"_stored_at", "_expires_at"} \subseteq DOMAIN The(r)
            /\ NewestStrictly(fid) => get_latest_formations(1) = <<The(r)>>

\* C13 witness: a formation whose confidence rounding changes was stored
\* last, next to an older one, and is the newest.
C13_Witness ==
    /\ lastStore # None
    /\ The(lastStore).formation.confidence
          # Round(The(lastStore).formation.confidence, 10)
    /\ Cardinality(DOMAIN timeline) >= 2
    /\ NewestStrictly(The(lastStore).stored_id)

\* C14: after delete(id) on a stored formation the record, its entry in the
\* global timeline index and its entry in its per-date index are absent.
C14_DeleteRemovesAll ==
    lastDelete # None =>
        LET fid == The(lastDelete).formation_id
            date_str == The(lastDelete).date_str
        IN  /\ fid \notin DOMAIN records
            /\ fid \notin DOMAIN timeline
            /\ date_str \in DOMAIN daily => fid \notin DOMAIN daily[date_str].members

NothingRemoved(c) ==
    /\ c.stats.orphan_indexes_cleaned = 0
    /\ c.stats.formations_removed = 0
    /\ ~c.changed

ShortestArc(h1, h2) ==
    LET d == (h2 - h1) % 360
    IN  IF d > 180 THEN d - 360 ELSE d

\* C16: the heading produced by interpolate lies in [0, 360) and equals h1
\* plus the fraction times the signed angular difference from h1 to h2
\* normalised to (-180, 180], modulo 360; 350 and 10 at one half give 0.
C16_HeadingShortestArc ==
    lastInterp # None =>
        LET c == The(lastInterp)
        IN  /\ 0 <= c.heading /\ c.heading < 360 * FractionDen
            /\ c.heading = (c.before * FractionDen
                              + c.num * ShortestArc(c.before, c.after))
                           % (360 * FractionDen)
            /\ (c.before = 350 /\ c.after = 10 /\ 2 * c.num = FractionDen)
                  => c.heading = 0
\* The messages of type `type` about `subject` in the inbox of a client.
Received(c, type, subject) ==
    SelectSeq(inbox[c], LAMBDA m : m.type = type /\ m.subject = subject)

\* C19: a TARGET_UPDATE for a target is sent only to clients that are
\* subscribed to the target at the moment of the send, also when the client
\* unsubscribed while the fan-out was in progress.
C19_UpdatesOnlyToSubscribers ==
    \A c \in WsClients : \A t \in FanTargets :
        \A i \in 1..Len(Received(c, "TARGET_UPDATE", t)) :
            Received(c, "TARGET_UPDATE", t)[i].subscribed

\* C20: for each subscriber and each target the TARGET_UPDATE messages come
\* in the order of the puts that produced them, each put once.
C20_UpdatesInPutOrder ==
    \A c \in WsClients : \A t \in FanTargets :
        LET got == Received(c, "TARGET_UPDATE", t)
        IN  \A i \in 1..Len(got) : \A j \in 1..Len(got) :
                i < j => got[i].put < got[j].put
\* The FORMATION_DETECTED messages in the inbox of a client.
Announcements(c) ==
    SelectSeq(inbox[c], LAMBDA m : m.type = "FORMATION_DETECTED")

\* C18: every FORMATION_DETECTED message announces a formation that was
\* written to the formation store before the message was sent.
C18_AnnouncedAfterStored ==
    \A c \in WsClients :
        \A i \in 1..Len(Announcements(c)) : Announcements(c)[i].stored
\* A target whose nation is hostile to that of every other target reported.
HostileToAll(t) ==
    \A u \in StreamTargets \ {t} :
        <<StreamNations[t], StreamNations[u]>> \in hostile_pairs

\* C12: a target whose nation forms a hostile pair with every other target
\* is a member of no formation of a recognition run of the stream service.
C12_NoHostileMember ==
    \A f \in lastRun.formations :
        \A t \in DOMAIN f.members : ~HostileToAll(t)

\* C17: no recognition run starts while another run is in progress.
C17_RunsNeverOverlap == running <= 1

\* ------------------------------ websocket_manager.py: sends that fail

sendFrame == <<baseVars, engineVars, storeVars, interpVars, streamVars,
    ackVars,
    runVars,
    incrVars,
    presetVars,
    cleanVars,
    trackVars,
    buildVars,
    distVars,
    bcastVars,
    keysVars>>

\* disconnect, lines 43-56, on the three registries taken as one value.
Disconnected(reg, c) ==
    [active |-> reg.active \ {c},
     targets |-> [t \in DOMAIN reg.targets |->
                     IF /\ reg.clients[c] # None
                        /\ t \in The(reg.clients[c])
                        /\ reg.targets[t] # None
                     THEN Some(The(reg.targets[t]) \ {c})
                     ELSE reg.targets[t]],
     clients |-> [reg.clients EXCEPT ![c] = None]]

\* broadcast, lines 101-102: the clients collected are disconnected in turn.
RECURSIVE DisconnectAll(_, _)
DisconnectAll(reg, cs) ==
    IF cs = <<>> THEN reg
    ELSE DisconnectAll(Disconnected(reg, Head(cs)), Tail(cs))

\* The sends of one handler to the clients of `cs`, none of them suspended
\* for long enough to let another coroutine run: the send to a client of
\* `fails` raises.
RECURSIVE SendEach(_, _, _, _)
SendEach(box, cs, task, fails) ==
    IF cs = <<>> THEN box
    ELSE LET c == Head(cs)
         IN  SendEach(IF c \in active_connections /\ c \notin fails
                      THEN Deliver(box, c, task) ELSE box,
                      Tail(cs), task, fails)

\* send_personal_message, lines 83-89: the reply to one client; a send
\* that raises is logged and nothing else is done.
send_personal_message(c, type, ok) ==
    /\ wsOps < MaxWsOps
    /\ wsOps' = wsOps + 1
    /\ inbox' = SendEach(inbox, <<c>>, NewTask(type, {}, 0, TRUE),
                         IF ok THEN {} ELSE {c})
    /\ sendFailed' = IF c \in active_connections /\ ~ok THEN {c} ELSE {}
    /\ UNCHANGED <<active_connections, target_subscriptions,
                   client_subscriptions, tasks>>

\* notify_target_update, lines 104-118: one send_personal_message for each
\* subscriber of the target.
notify_target_update(t, fails, order) ==
    /\ wsOps < MaxWsOps
    /\ wsOps' = wsOps + 1
    /\ inbox' = SendEach(inbox, FanoutOf(t, order),
                         NewTask("TARGET_UPDATE", t, 0, TRUE), fails)
    /\ sendFailed' = {c \in Subscribers(t) \cap active_connections : c \in fails}
    /\ UNCHANGED <<active_connections, target_subscriptions,
                   client_subscriptions, tasks>>

\* broadcast, lines 91-102: the clients whose send raised are collected and
\* disconnected after the last send.
broadcast(fails, order) ==
    /\ wsOps < MaxWsOps
    /\ wsOps' = wsOps + 1
    /\ LET cs == SelectSeq(order, LAMBDA c : c \in active_connections)
           reg == DisconnectAll([active |-> active_connections,
                                 targets |-> target_subscriptions,
                                 clients |-> client_subscriptions],
                                SelectSeq(cs, LAMBDA c : c \in fails))
       IN  /\ inbox' = SendEach(inbox, cs,
                                NewTask("FORMATION_DETECTED", {}, 0, TRUE), fails)
           /\ active_connections' = reg.active
           /\ target_subscriptions' = reg.targets
           /\ client_subscriptions' = reg.clients
           /\ sendFailed' = active_connections \cap fails
    /\ UNCHANGED tasks

SendTargets == {"t1"}

ReplyTypes == {"PONG"}

\* Clients connect, subscribe and leave, and the server sends replies,
\* target updates and broadcasts, any of which may fail.
NextSend ==
    \/ \E c \in WsClients :
          connect(c) /\ sendFailed' = {} /\ UNCHANGED sendFrame
    \/ \E c \in WsClients :
          disconnect(c) /\ sendFailed' = {} /\ UNCHANGED sendFrame
    \/ \E c \in WsClients, ts \in SUBSET SendTargets \ {{}} :
          subscribe_targets(c, ts) /\ sendFailed' = {} /\ UNCHANGED sendFrame
    \/ \E c \in WsClients, type \in ReplyTypes, ok \in BOOLEAN :
          send_personal_message(c, type, ok) /\ UNCHANGED sendFrame
    \/ \E t \in SendTargets, fails \in SUBSET WsClients, order \in InputOrders :
          notify_target_update(t, fails, order) /\ UNCHANGED sendFrame
    \/ \E fails \in SUBSET WsClients, order \in InputOrders :
          broadcast(fails, order) /\ UNCHANGED sendFrame

SpecSend == Init /\ [][NextSend]_vars

\* C21: a client for which a send of the last handler failed is no longer in
\* the connection registry nor among the subscribers of any target.
C21_FailedSendDisconnects ==
    \A c \in sendFailed :
        /\ c \notin active_connections
        /\ \A t \in DOMAIN target_subscriptions : c \notin Subscribers(t)

\* C22: when a step of a recognition run has failed (a store that gave no
\* id, an announcement that raised), every target the run took from the
\* pending set is in the pending set again when the run is over.
C22_FailedRunRestoresPending ==
    (lastRunEnd # None /\ The(lastRunEnd).failed)
        => The(lastRunEnd).targets \subseteq pending_targets

\* ------------------------------ stream_service.py: what push_data returns

ackFrame == <<syncVars, ruleVars, engineVars, storeVars, interpVars,
              loopState, dataTime, running, sendVars, runVars,
    incrVars,
    presetVars,
    cleanVars,
    trackVars,
    buildVars,
    distVars,
    bcastVars,
    keysVars>>

\* push_data, lines 149-156: the answer of a call that went through.
PushAck(r, c, targets) ==
    [success |-> TRUE,
     received |-> Len(targets),
     changed |-> Cardinality(ChangedTargets(c, targets)),
     buffer_size |-> r.puts,
     trigger_recognize |->
         ShouldTriggerRecognize(Cardinality(ChangedTargets(c, targets)),
                                Len(targets), r.pending),
     pending_targets |-> Cardinality(r.pending)]

\* push_data, lines 82-159, called and answered: a service that is not
\* running answers with an error, line 94.  No client is subscribed, so
\* the call is not suspended; every report is put into the buffer, which
\* holds as many entries as puts were made.
push_data_answered(targets, order) ==
    /\ wsOps < MaxWsOps
    /\ wsOps' = wsOps + 1
    /\ IF ~is_running
       THEN /\ lastAck' = Some([error |-> "not running"])
            /\ UNCHANGED <<cacheVars, pending_targets, inbox, putCount, tasks>>
            /\ UNCHANGED <<active_connections, target_subscriptions,
                           client_subscriptions>>
       ELSE LET r == RunPush([cache |-> CacheNow, pending |-> pending_targets,
                              inbox |-> inbox, puts |-> putCount,
                              targets |-> targets, fan |-> NoFan], order)
            IN  /\ PushResult(r, tasks)
                /\ lastAck' = Some(PushAck(r, CacheNow, targets))
    /\ UNCHANGED is_running

AckTargets == {"t1", "t2"}

AckPayloads ==
    {<<[id |-> t, state |-> s]>> : t \in AckTargets, s \in InputStates}
    \cup {<<[id |-> "t1", state |-> s], [id |-> t, state |-> s]>> :
             t \in AckTargets, s \in InputStates}

\* The service is started and stopped while producers push.
NextPush ==
    \/ initialize /\ UNCHANGED initFrame
    \/ shutdown /\ UNCHANGED stopFrame
    \/ \E targets \in AckPayloads :
          push_data_answered(targets, <<"c1", "c2">>) /\ UNCHANGED ackFrame

SpecPush == Init /\ [][NextPush]_vars

\* C23: what a call of push_data returned carries the counts received,
\* changed and buffer_size.
C23_AckCarriesCounts ==
    lastAck # None =>
        {"received", "changed", "buffer_size"} \subseteq DOMAIN The(lastAck)

MIN_INTERVAL == 5

\* C24: a recognition run that a push meeting the immediate-trigger
\* condition has started begins at least MIN_INTERVAL seconds after the
\* run before it.
C24_TriggerKeepsMinInterval ==
    (/\ runStart # None
     /\ The(runStart).owner = "push"
     /\ The(runStart).trigger
     /\ The(runStart).elapsed # None)
        => The(The(runStart).elapsed) >= MIN_INTERVAL

\* ------------------- formation_engine_smart.py: incremental recognition

incrFrame == <<syncVars, ruleVars, interpVars, wsVars, streamVars, sendVars,
               ackVars, runVars,
    presetVars,
    cleanVars,
    trackVars,
    buildVars,
    distVars,
    bcastVars,
    keysVars>>

\* process_data_with_cache, lines 54-73: every record is processed, which
\* syncs its state to the cache; the target is marked as changed when the
\* state the cache then holds has the time of the record.
RECURSIVE ProcessMarking(_, _)
ProcessMarking(r, data_list) ==
    IF data_list = <<>> THEN r
    ELSE LET record == Head(data_list)
             tid == record.id
             processed == ProcessRecords(r.tracks, r.cache, <<record>>)
             cached_state == processed.cache.hashes[tid]
         IN  ProcessMarking(
                [tracks |-> processed.tracks,
                 cache |-> processed.cache,
                 changed |-> IF /\ cached_state # None
                                /\ DictToState(The(cached_state)).timestamp
                                       = record.state.timestamp
                             THEN r.changed \cup {tid} ELSE r.changed],
                Tail(data_list))

process_data_with_cache(data_list) ==
    LET r == ProcessMarking([tracks |-> tracks, cache |-> CacheNow,
                             changed |-> changed_targets], data_list)
    IN  /\ tracks' = r.tracks
        /\ hashes' = r.cache.hashes
        /\ versions' = r.cache.versions
        /\ streams' = r.cache.streams
        /\ changed_targets' = r.changed
        /\ UNCHANGED <<last_recognition_time, lastIncr, lastRun, engineOps>>
        /\ UNCHANGED <<now, pc, loc, ret, ops, assigned, logWrites, lastWrite>>

\* recognize_incremental, lines 91-108: whether the call runs a recognition.
ShouldRecognize(force, last, time, changed) ==
    \/ force
    \/ IF last = None THEN FALSE ELSE time - The(last) >= MIN_INTERVAL
    \/ changed # {}

\* recognize_incremental, lines 82-129: a call that is not to run returns
\* the empty list; else the tracks are refreshed from the cache and
\* recognised, the time of the run is kept, the changed set is emptied and
\* the formations are stored.
recognize_incremental(force, outcome, confidence, ok, hex) ==
    LET should_recognize ==
            ShouldRecognize(force, last_recognition_time, streamClock, changed_targets)
        trk == RefreshFromCache(tracks, CacheNow)
        run == RecognizeRun(trk, {}, outcome)
        st == StoreBatch(StoreNow, Cardinality(run.formations), confidence, ok, hex)
    IN  /\ lastIncr' = Some([force |-> force,
                             last |-> last_recognition_time,
                             time |-> streamClock,
                             changed |-> changed_targets,
                             ran |-> should_recognize,
                             formations |-> IF should_recognize
                                            THEN Cardinality(run.formations) ELSE 0])
        /\ IF should_recognize
           THEN /\ tracks' = trk
                /\ lastRun' = run
                /\ last_recognition_time' = Some(streamClock)
                /\ changed_targets' = {}
                /\ records' = st.records
                /\ timeline' = st.timeline
                /\ daily' = st.daily
           ELSE UNCHANGED <<tracks, lastRun, last_recognition_time,
                            changed_targets, records, timeline, daily>>
        /\ UNCHANGED <<engineOps, wall, storeOps, lastStore, lastDelete,
                       lastCleanup, cacheVars>>

\* The time of the last report the engine has of a target.
LastReport ==
    IF "t1" \in DOMAIN tracks /\ LatestLocal(tracks["t1"]) # None
    THEN The(LatestLocal(tracks["t1"])).timestamp ELSE 0

\* The engine of the stream service: reports of two targets are processed
\* in the order of their times, recognitions are asked for, time passes.
NextIncr ==
    \/ \E k \in 1..Len(InputSchedule) :
          /\ LastReport < InputSchedule[k]
          /\ \A j \in 1..(k - 1) : InputSchedule[j] <= LastReport
          /\ process_data_with_cache(
                 [i \in 1..2 |-> Record(StreamPayload(InputSchedule[k])[i].id, None,
                                        StreamPayload(InputSchedule[k])[i].state)])
          /\ UNCHANGED <<storeVars, incrFrame>>
    \/ \E force \in BOOLEAN, outcome \in Verdicts(StreamTargets), ok \in BOOLEAN :
          recognize_incremental(force, outcome, 8127, ok, 1)
             /\ UNCHANGED incrFrame
    \/ Wait /\ UNCHANGED waitFrame

SpecIncr == Init /\ [][NextIncr]_vars

\* C25: a call of recognize_incremental runs a recognition exactly when it
\* is forced, or no recognition has run before, or MIN_INTERVAL seconds have
\* passed since the last one, or the changed set is not empty; a call that
\* does not run leaves the changed set and the time of the last run alone.
C25_RunsExactlyWhenHonoured ==
    lastIncr # None =>
        LET call == The(lastIncr) IN
        /\ call.ran <=> (\/ call.force
                         \/ call.last = None
                         \/ (call.last # None
                             /\ call.time - The(call.last) >= MIN_INTERVAL)
                         \/ call.changed # {})
        /\ ~call.ran => /\ changed_targets = call.changed
                        /\ last_recognition_time = call.last

\* C26: when the background loop has run a recognition over two or more
\* pending targets that have been reported for MinFormationDuration seconds
\* and satisfy the rules at every time point, and no step of the run
\* failed, get_latest_formations(1) returns a formation, the
\* formations of the run have their members among those targets, and every
\* connected client has received a FORMATION_DETECTED message.
C26_TickRunYieldsFormation ==
    (/\ lastRunEnd # None
     /\ The(lastRunEnd).owner = "loop"
     /\ Cardinality(The(lastRunEnd).targets) >= 2
     /\ The(lastRunEnd).satisfied
     /\ ~The(lastRunEnd).failed
     /\ dataTime >= InputSchedule[1] + MinFormationDuration)
        => /\ Len(get_latest_formations(1)) = 1
           /\ \A f \in lastRun.formations :
                 DOMAIN f.members \subseteq The(lastRunEnd).targets
           /\ \A c \in active_connections : Announcements(c) # <<>>

\* C27: when the append of a put's UPDATE event fails after its state write,
\* the put returns success with its delta, the state and the version the
\* pipeline wrote are left as they are, and, no other write to the target
\* having taken effect since, they are those of this put.
C27_AppendFailureSwallowed ==
    [][\A p \in Producers, t \in CacheTargets :
          (/\ pc[p] = "written"
           /\ pc'[p] = "idle"
           /\ loc[p].target_id = t
           /\ PutDelta(p) # None
           /\ streams' = streams)
          => /\ ret'[p] = Some([success |-> TRUE, is_update |-> TRUE,
                                delta |-> PutDelta(p)])
             /\ hashes' = hashes
             /\ versions' = versions
             /\ (lastWrite[t] # None /\ The(lastWrite[t]).proc = p)
                   => /\ get_target_state(t)' = loc[p].state
                      /\ get_target_version(t)' = loc[p].new_version]_vars

\* C27 witness: a put that changed its target has returned success with a
\* delta, is the last write to the target, and its event is not in the log.
C27_Witness ==
    \E p \in Producers, t \in CacheTargets :
        /\ ret[p] # None
        /\ The(ret[p]).success
        /\ The(ret[p]).delta # None
        /\ lastWrite[t] # None
        /\ The(lastWrite[t]).proc = p
        /\ The(lastWrite[t]).returned
        /\ \A i \in 1..Len(logWrites[t]) : logWrites[t][i] # Len(assigned[t])

\* --------------------------------- rule_manager.py: the presets of rules

presetFrame == <<cacheVars, syncVars, engineVars, storeVars, interpVars, wsVars,
                 streamVars, sendVars, ackVars, runVars, incrVars,
    cleanVars,
    trackVars,
    buildVars,
    distVars,
    bcastVars,
    keysVars>>

PresetRule(name, rule_type, priority) ==
    [name |-> name, rule_type |-> rule_type, priority |-> priority,
     enabled |-> TRUE, stats |-> NewStats]

\* create_preset, lines 179-224, after its clear: the rules of the preset;
\* a name that is none of the four adds nothing.
PresetRules(preset_type) ==
    IF preset_type = "tight_fighter"
    THEN <<PresetRule("HostileCheck", "AttributeRule", CRITICAL),
           PresetRule("TightDist", "DistanceRule", CRITICAL),
           PresetRule("TightAlt", "AltitudeRule", HIGH),
           PresetRule("TightSpeed", "SpeedRule", HIGH),
           PresetRule("TightHeading", "HeadingRule", HIGH)>>
    ELSE IF preset_type = "loose_bomber"
    THEN <<PresetRule("AllianceCheck", "AttributeRule", CRITICAL),
           PresetRule("LooseDist", "DistanceRule", CRITICAL),
           PresetRule("LooseAlt", "AltitudeRule", HIGH),
           PresetRule("LooseSpeed", "SpeedRule", HIGH),
           PresetRule("LooseHeading", "HeadingRule", HIGH)>>
    ELSE IF preset_type = "strike_package"
    THEN <<PresetRule("CoalitionCheck", "AttributeRule", CRITICAL),
           PresetRule("PackageDist", "DistanceRule", CRITICAL),
           PresetRule("PackageAlt", "AltitudeRule", MEDIUM),
           PresetRule("PackageSpeed", "SpeedRule", MEDIUM),
           PresetRule("PackageHeading", "HeadingRule", MEDIUM),
           PresetRule("MixedTypes", "PlatformTypeRule", MEDIUM)>>
    ELSE IF preset_type = "awacs_control"
    THEN <<PresetRule("AllianceCheck", "AttributeRule", CRITICAL),
           PresetRule("AWACSDist", "DistanceRule", CRITICAL),
           PresetRule("AWACSAlt", "AltitudeRule", HIGH)>>
    ELSE <<>>

PresetNames == {"tight_fighter", "loose_bomber", "strike_package", "awacs_control"}

\* load_preset, formation_engine.py lines 66-70: the rules of the manager
\* are replaced by those of the preset and the scene is set to its name;
\* the call returns the engine.
load_preset(preset_type) ==
    /\ rules' = PresetRules(preset_type)
    /\ current_scene' = preset_type
    /\ lastPreset' = Some([name |-> preset_type, error |-> FALSE,
                           rules |-> rules, scene |-> current_scene])
    /\ UNCHANGED <<evaluation_history, ruleOps, lastEval>>

\* apply_preset, formation_service.py lines 393-402: a name that is not a
\* preset of the service is answered with False.
apply_preset(preset_name) ==
    IF preset_name \notin PresetNames
    THEN /\ lastPreset' = Some([name |-> preset_name, error |-> TRUE,
                                rules |-> rules, scene |-> current_scene])
         /\ UNCHANGED <<rules, current_scene, evaluation_history, ruleOps, lastEval>>
    ELSE load_preset(preset_name)

InputPresets == PresetNames \cup {"no_such_preset"}

\* The rules of an engine: presets are applied through the service and
\* loaded by the callers of the engine (recognize with a preset, the start
\* of the stream service), rules are added, removed and cleared.
NextPreset ==
    \/ \E name \in InputPresets : load_preset(name) /\ UNCHANGED presetFrame
    \/ \E name \in InputPresets : apply_preset(name) /\ UNCHANGED presetFrame
    \/ \E name \in RuleNames, q \in InputPriorities :
          add_rule(BaseRule(name, q)) /\ lastPreset' = None
             /\ UNCHANGED <<presetFrame, current_scene>>
    \/ \E name \in RuleNames :
          remove_rule(name) /\ lastPreset' = None
             /\ UNCHANGED <<presetFrame, current_scene>>
    \/ clear /\ lastPreset' = None /\ UNCHANGED <<presetFrame, current_scene>>

SpecPreset == Init /\ [][NextPreset]_vars

\* C28: after a preset name that is not a preset was applied, the caller
\* has been given an error, and the rules and the scene of the engine are
\* what they were before.
C28_UnknownPresetRejected ==
    (lastPreset # None /\ The(lastPreset).name \notin PresetNames)
        => /\ The(lastPreset).error
           /\ rules = The(lastPreset).rules
           /\ current_scene = The(lastPreset).scene

\* ----------------------- scheduler/cleanup.py: the callers of the cleanup

cleanFrame == <<baseVars, engineVars, interpVars, wsVars, streamVars, sendVars,
                ackVars, runVars, incrVars, presetVars,
    trackVars,
    buildVars,
    distVars,
    bcastVars,
    keysVars>>

\* cleanup_expired_data, lines 298-308, called by _daily_cleanup on a thread
\* of the scheduler (cleanup.py line 62) or by trigger_cleanup on the thread
\* of the event loop (api_rules.py line 383): the ids of the timeline are
\* read and those without a record are collected.  The scheduler runs one
\* instance of its job at a time and the event loop one handler at a time;
\* nothing keeps the one from running while the other does.
CleanupScan(who) ==
    LET all_ids == {fid \in DOMAIN timeline : 0 <= timeline[fid] /\ timeline[fid] <= wall}
        to_remove == {fid \in all_ids : fid \notin DOMAIN records}
    IN  /\ cleaning[who] = None
        /\ cleaning' = [cleaning EXCEPT ![who] = Some(to_remove)]
        /\ UNCHANGED storeVars

\* cleanup_expired_data, lines 310-329: the ids collected are removed from
\* the timeline and the daily indexes older than the retention are deleted;
\* the call returns.
CleanupSweep(who) ==
    LET old_dates == {d \in DOMAIN daily :
                        \E i \in 0..29 : /\ d = DateStr(wall - i * DayLen)
                                         /\ i > RETENTION_DAYS
                                         /\ DOMAIN daily[d].members # {}}
    IN  /\ cleaning[who] # None
        /\ timeline' = ZRem(timeline, The(cleaning[who]))
        /\ daily' = MapDrop(daily, old_dates)
        /\ cleaning' = [cleaning EXCEPT ![who] = None]
        /\ lastStore' = None
        /\ lastDelete' = None
        /\ lastCleanup' = None
        /\ UNCHANGED <<records, wall, storeOps>>

\* Formations are stored and expire while the daily job and the manual
\* trigger clean up.
NextCleanup ==
    \/ \E f \in InputFormations, hex \in HexDigits :
          store_formation(f, None, hex, TRUE) /\ UNCHANGED storeFrame
    \/ \E d \in ClockSteps : AdvanceClock(d) /\ UNCHANGED storeFrame
    \/ \E who \in CleanupCallers : CleanupScan(who) /\ UNCHANGED cleanFrame
    \/ \E who \in CleanupCallers : CleanupSweep(who) /\ UNCHANGED cleanFrame

SpecCleanup == Init /\ [][NextCleanup]_vars

\* C29: at most one call of the cleanup of the formation store is in
\* progress at any time.
C29_OneCleanupAtATime ==
    Cardinality({who \in CleanupCallers : cleaning[who] # None}) <= 1

\* ----------------------------- target_cache.py: a put without failures

\* Concurrent producers on one target, the backend failing at no command.
NextNoFailure ==
    \/ \E p \in Producers, t \in CacheTargets, s \in InputStates, emit \in BOOLEAN :
          PutStart(p, t, s, emit) /\ UNCHANGED <<syncVars, ruleVars, extVars>>
    \/ \E p \in Producers : PutRead(p) /\ UNCHANGED <<syncVars, ruleVars, extVars>>
    \/ \E p \in Producers : PutExec(p) /\ UNCHANGED <<syncVars, ruleVars, extVars>>
    \/ \E p \in Producers : PutEmit(p, TRUE) /\ UNCHANGED <<syncVars, ruleVars, extVars>>
    \/ Tick /\ UNCHANGED <<syncVars, ruleVars, extVars>>

SpecNoFailure == Init /\ [][NextNoFailure]_vars

\* C30: a target is never readable at the version a put has written while
\* the UPDATE event of that put is still to be appended to the delta log of
\* the target.
C30_PutIsOneStep ==
    \A p \in Producers :
        ~(/\ pc[p] = "written"
          /\ PutDelta(p) # None
          /\ get_target_version(loc[p].target_id) = loc[p].new_version
          /\ \A i \in 1..Len(logWrites[loc[p].target_id]) :
                logWrites[loc[p].target_id][i] # loc[p].widx)

\* ----------------------- tracker.py: the segments of one track

trackFrame == <<baseVars, engineVars, storeVars, interpVars, wsVars, streamVars,
                sendVars, ackVars, runVars, incrVars, presetVars, cleanVars,
    buildVars,
    distVars,
    bcastVars,
    keysVars>>

\* The times of the reports: within SEGMENT_GAP_THRESHOLD of each other or
\* further apart, arriving in any order.
TrackTimes == {0, 60, 200, 400}

\* _process_single_record: a report is added to the track.
TrackAdd(ts) ==
    /\ Len(added) < MaxTrackAdds
    /\ segTrack' = add_state(segTrack, MkState(ts, 0, 90))
    /\ added' = Append(added, MkState(ts, 0, 90))
    /\ sealed' = FALSE

\* _refresh_from_cache, lines 136-151: the cached state is added when it is
\* later than the latest state of the track.
TrackRefresh(ts) ==
    LET cached_state == MkState(ts, 0, 90)
        c == [hashes |-> [tid \in {"t1"} |-> Some(StateToDict(cached_state, 0))]]
        refreshed == RefreshFromCache([tid \in {"t1"} |-> segTrack], c)["t1"]
    IN  /\ Len(added) < MaxTrackAdds
        /\ refreshed # segTrack
        /\ segTrack' = refreshed
        /\ added' = Append(added, cached_state)
        /\ sealed' = FALSE

\* process_data, lines 97-98: the track is finalized.
TrackFinalize ==
    /\ ~sealed
    /\ segTrack' = finalize(segTrack)
    /\ sealed' = TRUE
    /\ UNCHANGED added

NextTrack ==
    \/ \E ts \in TrackTimes : TrackAdd(ts) /\ UNCHANGED trackFrame
    \/ \E ts \in TrackTimes : TrackRefresh(ts) /\ UNCHANGED trackFrame
    \/ TrackFinalize /\ UNCHANGED trackFrame

SpecTrack == Init /\ [][NextTrack]_vars

\* C31: after finalize every state ever added to the track is in exactly
\* one sealed segment: the segments laid end to end are the states added,
\* in the order they were added.
C31_FinalizeSealsEveryState ==
    sealed => /\ segTrack.current_segment = <<>>
              /\ Flatten(segTrack.segments) = added

Timestamps(seg) == [i \in 1..Len(seg) |-> seg[i].timestamp]

\* C32: after any sequence of add_state calls the states of every segment,
\* the open one included, have strictly increasing timestamps.
C32_SegmentsStrictlyIncreasing ==
    /\ StrictlyIncreasing(Timestamps(segTrack.current_segment))
    /\ \A k \in 1..Len(segTrack.segments) :
          StrictlyIncreasing(Timestamps(segTrack.segments[k]))

\* ----------------------- formation_engine.py: the confidence of a formation

buildFrame == <<baseVars, engineVars, storeVars, interpVars, wsVars, streamVars,
                sendVars, ackVars, runVars, incrVars, presetVars, cleanVars,
                trackVars,
    distVars,
    bcastVars,
    keysVars>>

\* The avg_confidence of a valid pair, in ten-thousandths.
EdgeConfidences == {6000, 7000, 8000, 9000, 10000}

\* The valid pairs handed to _build_formations: any pairs of the targets,
\* each with its confidence.
InputEdgeWeights ==
    UNION {[edges -> EdgeConfidences] : edges \in SUBSET PairsOf(TrackIds)}

RECURSIVE SumOver(_, _)
SumOver(f, S) ==
    IF S = {} THEN 0
    ELSE LET x == CHOOSE y \in S : TRUE IN f[x] + SumOver(f, S \ {x})

\* _build_formations, lines 313-323: np.mean over every pair of members of
\* edge_weights.get(p, 0), as the sum and the number of values averaged.
MeanConfidence(edge_weights, member_pairs) ==
    [sum |-> SumOver([p \in member_pairs |->
                         IF p \in DOMAIN edge_weights THEN edge_weights[p] ELSE 0],
                     member_pairs),
     count |-> Cardinality(member_pairs)]

\* _build_formations, lines 282-331: the components of the graph of the valid
\* pairs, each with the confidence averaged over its pairs of members.
build_formations(edge_weights) ==
    {[members |-> fd.members,
      confidence |-> MeanConfidence(edge_weights, fd.member_pairs),
      member_pairs |-> fd.member_pairs] : fd \in BuildFormations(DOMAIN edge_weights)}

BuildStep(edge_weights) ==
    lastBuild' = Some([edge_weights |-> edge_weights,
                       formations |-> build_formations(edge_weights)])

NextBuild ==
    \E edge_weights \in InputEdgeWeights :
        BuildStep(edge_weights) /\ UNCHANGED buildFrame

SpecBuild == Init /\ [][NextBuild]_vars

\* C33: the confidence of each formation built is the mean of the weights
\* of the retained edges inside its component; pairs of members that are
\* not retained edges add nothing to it.
C33_ConfidenceIsMeanOfEdges ==
    lastBuild # None =>
        \A f \in The(lastBuild).formations :
            LET edge_weights == The(lastBuild).edge_weights
                inside == {p \in DOMAIN edge_weights : p \subseteq f.members}
            IN  f.confidence.sum * Cardinality(inside)
                    = SumOver(edge_weights, inside) * f.confidence.count

\* ----------------------- rules.py: DistanceRule.evaluate

distFrame == <<baseVars, engineVars, storeVars, interpVars, wsVars, streamVars,
               sendVars, ackVars, runVars, incrVars, presetVars, cleanVars,
               trackVars, buildVars,
    bcastVars,
    keysVars>>

\* The bounds of a distance rule and the distances of a pair, in metres.
InputBounds == {0, 100, 200, 300, 400}
InputDistances == {0, 50, 100, 150, 200, 250, 300, 350, 400}

Abs(n) == IF n < 0 THEN 0 - n ELSE n
Clamp(lo, hi, n) == IF n < lo THEN lo ELSE IF n > hi THEN hi ELSE n

\* DistanceRule.evaluate, lines 130-159, of an enabled rule of weight 1.0,
\* with the confidence in ten-thousandths.  optimal is (min + max) / 2, so
\* abs(dist - optimal) / (max - min) is |2 dist - (min + max)| over
\* 2 (max - min); the division of two Python numbers raises
\* ZeroDivisionError when the divisor is zero.
DistanceEvaluate(min_distance, max_distance, dist) ==
    IF dist < min_distance
    THEN [raised |-> None, passed |-> FALSE, confidence |-> 0,
          violation |-> Some("too_close")]
    ELSE IF dist > max_distance
    THEN [raised |-> None, passed |-> FALSE, confidence |-> 0,
          violation |-> Some("too_far")]
    ELSE IF max_distance - min_distance = 0
    THEN [raised |-> Some("ZeroDivisionError"), passed |-> FALSE, confidence |-> 0,
          violation |-> None]
    ELSE [raised |-> None, passed |-> TRUE,
          confidence |->
              Clamp(5000, 10000,
                    10000 - (Abs(2 * dist - (min_distance + max_distance)) * 10000)
                                \div (2 * (max_distance - min_distance))),
          violation |-> None]

DistanceStep(min_distance, max_distance, dist) ==
    lastDistance' = Some([min_distance |-> min_distance,
                          max_distance |-> max_distance,
                          dist |-> dist,
                          result |-> DistanceEvaluate(min_distance, max_distance, dist)])

NextDistance ==
    \E min_distance \in InputBounds, max_distance \in InputBounds,
       dist \in InputDistances :
        DistanceStep(min_distance, max_distance, dist) /\ UNCHANGED distFrame

SpecDistance == Init /\ [][NextDistance]_vars

\* C34: a distance rule with min_distance = max_distance evaluates a pair
\* whose distance equals that value to passed = true and raises no
\* arithmetic error.
C34_DegenerateRangePasses ==
    (/\ lastDistance # None
     /\ The(lastDistance).min_distance = The(lastDistance).max_distance
     /\ The(lastDistance).dist = The(lastDistance).min_distance)
        => /\ The(lastDistance).result.raised = None
           /\ The(lastDistance).result.passed

\* ----------------------- websocket_manager.py: the two subscription maps

\* Clients connect, connect again under an id in use, subscribe, unsubscribe
\* and disconnect.
NextRegistry ==
    \/ \E c \in WsClients : connect(c) /\ UNCHANGED wsFrame
    \/ \E c \in WsClients : disconnect(c) /\ UNCHANGED wsFrame
    \/ \E c \in WsClients, ts \in SUBSET FanTargets \ {{}} :
          subscribe_targets(c, ts) /\ UNCHANGED wsFrame
    \/ \E c \in WsClients, ts \in SUBSET FanTargets \ {{}} :
          unsubscribe_targets(c, ts) /\ UNCHANGED wsFrame

SpecRegistry == Init /\ [][NextRegistry]_vars

\* C35: client c is among the subscribers of target t exactly when t is
\* among the subscriptions of c, and every client of either map is in the
\* connection registry.
C35_SubscriptionMapsAgree ==
    \A c \in WsClients :
        /\ \A t \in DOMAIN target_subscriptions :
              /\ c \in Subscribers(t)
                    <=> (/\ client_subscriptions[c] # None
                         /\ t \in The(client_subscriptions[c]))
              /\ c \in Subscribers(t) => c \in active_connections
        /\ client_subscriptions[c] # None => c \in active_connections

\* ----------------------- websocket_manager.py: a broadcast between its sends

bcastFrame == <<baseVars, engineVars, storeVars, interpVars, streamVars,
                sendVars, ackVars, runVars, incrVars, presetVars, cleanVars,
                trackVars, buildVars, distVars,
    keysVars>>

\* A client connects or leaves while a broadcast is suspended.  A new key of
\* the dict is a new entry the loop has not visited; a key in use has its
\* value replaced in place.
NoteConnect(c) ==
    IF bcast # None /\ c \notin active_connections
    THEN Some([The(bcast) EXCEPT !.visited = @ \ {c}])
    ELSE bcast

NoteDisconnect(c) ==
    IF bcast # None THEN Some([The(bcast) EXCEPT !.stayed = @ \ {c}]) ELSE bcast

BcastOver(b, raised) ==
    Some([stayed |-> b.stayed, delivered |-> b.delivered,
          failed |-> SeqRange(b.disconnected), raised |-> raised])

\* broadcast, lines 94-98: send_json to one connection; the coroutine is
\* suspended in it.  A send that raises puts the client on the list.
BcastSend(b, c, ok) ==
    /\ inbox' = IF ok THEN Deliver(inbox, c, NewTask("FORMATION_DETECTED", 1, 0, TRUE))
                ELSE inbox
    /\ bcast' = Some([b EXCEPT !.visited = @ \cup {c},
                               !.visits = @ + 1,
                               !.delivered = IF ok THEN @ \cup {c} ELSE @,
                               !.disconnected = IF ok THEN @ ELSE Append(@, c)])
    /\ lastBcast' = None
    /\ UNCHANGED <<active_connections, target_subscriptions, client_subscriptions>>

\* broadcast, lines 93-94: the loop over active_connections.items() begins;
\* with no connection the call returns at once.
BroadcastStart(order, ok) ==
    LET clients == SelectSeq(order, LAMBDA c : c \in active_connections)
        b == [order |-> order, conns |-> Cardinality(active_connections),
              stayed |-> active_connections, visited |-> {}, visits |-> 0,
              delivered |-> {}, disconnected |-> <<>>]
    IN  /\ bcast = None
        /\ wsOps < MaxWsOps
        /\ wsOps' = wsOps + 1
        /\ IF clients = <<>>
           THEN /\ lastBcast' = BcastOver(b, FALSE)
                /\ UNCHANGED <<bcast, inbox, active_connections,
                               target_subscriptions, client_subscriptions>>
           ELSE BcastSend(b, Head(clients), ok)
        /\ UNCHANGED tasks

\* broadcast, lines 94-102: the send returns and the loop asks the iterator
\* of the dict for the next item.  The iterator raises RuntimeError when the
\* dict has another size than when the loop began, or when it finds an entry
\* after as many items as the dict had; the exception leaves broadcast.
\* After the last item the clients on the list are disconnected.
BroadcastResume(ok) ==
    /\ bcast # None
    /\ LET b == The(bcast)
           remaining == SelectSeq(b.order, LAMBDA c : /\ c \in active_connections
                                                      /\ c \notin b.visited)
           reg == DisconnectAll([active |-> active_connections,
                                 targets |-> target_subscriptions,
                                 clients |-> client_subscriptions],
                                b.disconnected)
       IN  IF Cardinality(active_connections) # b.conns
              \/ (remaining # <<>> /\ b.visits >= b.conns)
           THEN /\ bcast' = None
                /\ lastBcast' = BcastOver(b, TRUE)
                /\ UNCHANGED <<inbox, active_connections, target_subscriptions,
                               client_subscriptions>>
           ELSE IF remaining = <<>>
           THEN /\ bcast' = None
                /\ lastBcast' = BcastOver(b, FALSE)
                /\ active_connections' = reg.active
                /\ target_subscriptions' = reg.targets
                /\ client_subscriptions' = reg.clients
                /\ UNCHANGED inbox
           ELSE BcastSend(b, Head(remaining), ok)
    /\ UNCHANGED <<tasks, wsOps>>

\* Clients come and go while formations are announced to all of them.
NextBroadcast ==
    \/ \E c \in WsClients :
          connect(c) /\ bcast' = NoteConnect(c) /\ lastBcast' = lastBcast
             /\ UNCHANGED bcastFrame
    \/ \E c \in WsClients :
          disconnect(c) /\ bcast' = NoteDisconnect(c) /\ lastBcast' = lastBcast
             /\ UNCHANGED bcastFrame
    \/ \E order \in InputOrders, ok \in BOOLEAN :
          BroadcastStart(order, ok) /\ UNCHANGED bcastFrame
    \/ \E ok \in BOOLEAN : BroadcastResume(ok) /\ UNCHANGED bcastFrame

SpecBroadcast == Init /\ [][NextBroadcast]_vars

\* C36: a broadcast ends without an error and has been delivered to every
\* client that was connected from its beginning to its end and whose send
\* did not fail, whatever clients connected or left while it was suspended.
C36_BroadcastReachesAllWhoStay ==
    lastBcast # None =>
        /\ ~The(lastBcast).raised
        /\ (The(lastBcast).stayed \ The(lastBcast).failed)
               \subseteq The(lastBcast).delivered

\* ----------------------- formation_service.py: the store keys of the runs

keysFrame == <<syncVars, ruleVars, interpVars, streamVars, sendVars, ackVars,
               runVars, incrVars, presetVars, cleanVars, trackVars, buildVars,
               distVars, bcastVars>>

\* recognize, lines 141-151: the ids store_formation returned to the run.
StoredIdsOf(stored) ==
    {The(stored[k].stored_id) :
        k \in {j \in 1..Len(stored) : stored[j].stored_id # None}}

FinalizeProcessed(processed) ==
    FinalizeAll(processed.tracks, processed.cache, DOMAIN processed.tracks)

ServiceStoredIds(data_list, outcome, confidence, ok) ==
    StoredIdsOf(
        StoreAll(StoreNow,
                 RecognizeRun(
                     FinalizeProcessed(
                         ProcessRecords(EmptyTracks, CacheNow, data_list)).tracks,
                     {}, outcome).formations,
                 1, confidence, ok, <<>>).stored)

\* Requests to /recognize follow each other while time passes; no event is
\* asked for.
NextRuns ==
    \/ \E input \in ServiceInputs, outcome \in Verdicts(ServiceTargets),
          confidence \in InputConfidences, ok \in BOOLEAN :
          /\ service_recognize(DataList(input, 1), outcome, confidence, ok, FALSE)
          /\ lastKeys' = Some([before |-> DOMAIN records,
                               stored |-> ServiceStoredIds(DataList(input, 1), outcome,
                                                           confidence, ok)])
          /\ UNCHANGED keysFrame
    \/ \E d \in ClockSteps : AdvanceClock(d) /\ UNCHANGED storeFrame

SpecRuns == Init /\ [][NextRuns]_vars

\* C37: the store keys of a run are fresh: a run stores no formation under
\* a key that held the record of a formation before the run.
C37_StoreKeysFreshPerRun ==
    lastKeys # None => The(lastKeys).stored \cap The(lastKeys).before = {}

\* C38: a recognition run of the stream service that stored without a
\* failure has added one record to the formation store for each formation
\* the engine returned in the run.
C38_OneRecordPerFormation ==
    (lastRunEnd # None /\ ~The(lastRunEnd).failed)
        => Cardinality(The(lastRunEnd).added) = The(lastRunEnd).found


\* ----------------------- stream_service.py: what becomes of a pending id

\* What a producer pushes in one call: a report of t1 alone or of both
\* targets.
PendingPayloads(time) ==
    {<<[id |-> "t1", state |-> MkState(time, time, 90)]>>, StreamPayload(time)}

\* The stream service with no client connected: producers push and the
\* background loop runs recognitions, none of which is suspended in a send.
NextPending ==
    \/ initialize /\ UNCHANGED initFrame
    \/ \E k \in 1..Len(InputSchedule), immediate \in BOOLEAN :
          \E in \in IF immediate THEN RunInputs ELSE NoInputs :
              \E targets \in PendingPayloads(InputSchedule[k]) :
                  /\ dataTime < InputSchedule[k]
                  /\ \A j \in 1..(k - 1) : InputSchedule[j] <= dataTime
                  /\ push_stream_data(targets, InputSchedule[k],
                                      immediate, in.outcome, in.confidence, in.ok,
                                      in.hexes, in.order)
                  /\ UNCHANGED runFrame
    \/ \E in \in RunInputs :
          auto_recognize_loop(in.outcome, in.confidence, in.ok, in.hexes, in.order)
             /\ UNCHANGED runFrame
    \/ Wait /\ UNCHANGED waitFrame

SpecPending == Init /\ [][NextPending]_vars

\* C39: an id leaves the pending set only in a run that passes it to the
\* recognition engine, where it then has a track: no step takes an id out of
\* the pending set while the engine has never been given it.
C39_PendingNeverDropped ==
    [][\A id \in pending_targets :
          id \in pending_targets' \/ id \in DOMAIN tracks']_vars

\* C40: a formation the /recognize pipeline has stored is in the store with
\* the member ids and the time range of a formation the engine produced in
\* that run.
C40_StoredAsProduced ==
    lastKeys # None =>
        \A fid \in The(lastKeys).stored \cap DOMAIN records :
            LET r == The(get_formation(fid)) IN
            \E f \in lastRun.formations :
                /\ r.members = DOMAIN f.members
                /\ FromIsoFormat(r.time.start) = f.time_range[1]
                /\ FromIsoFormat(r.time.end) = f.time_range[2]

====
